---------------------------- MODULE Spec2Model ----------------------------
(***************************************************************************)
(* The Olist dashboard: the start-up aggregation pipeline of               *)
(* dashboard/data.py (load_dashboard_data and the functions it calls) and  *)
(* the Dash callbacks of app.py and sections/*.py that serve the result.   *)
(*                                                                         *)
(* Representation.                                                         *)
(*  - Money is a whole number of BRL.  The commission rate 0.10 is the     *)
(*    fraction 1/10; input prices are drawn as multiples of 10, so every   *)
(*    product with the rate is exact.  A quotient the code leaves as a     *)
(*    float (a margin, a mean, a price share) is kept as an exact fraction *)
(*    [num, den] with den > 0.                                             *)
(*  - A pandas table whose row order the code never reads (orders, order   *)
(*    items, reviews) is a set or a bag of rows; a table whose row order   *)
(*    is read (the seller table, every derived table) is a sequence.       *)
(*  - A timestamp is a whole number of half-days since 2017-12-01 00:00.   *)
(***************************************************************************)
EXTENDS Integers, Sequences, FiniteSets, Bags, TLC

VARIABLES
    pc,                        \* position of the process in its start-up / serving
    orders_df,                 \* olist_data["orders"]                 (data.py:411)
    order_items_df,            \* olist_data["order_items"]            (data.py:421)
    reviews_df,                \* olist_data["order_reviews"]          (data.py:426)
    products_df,               \* olist_data["products"]               (data.py:427)
    translations_df,           \* product_category_name_translation    (data.py:428)
    customers_df,              \* olist_data["customers"]              (data.py:429)
    seller_df,                 \* Seller().get_training_data()         (data.py:445)
    delivered_orders_df,       \* locals of load_dashboard_data        (data.py:431)
    order_items_delivered_df,
    order_cost_df,
    monthly_metrics_df,        \* data.py:435
    category_profitability_df, \* data.py:438
    state_metrics_df,          \* data.py:441
    financial_overview,        \* data.py:446
    strategy_df,               \* data.py:448
    strategy_highlights,       \* data.py:448
    dashboard_data,            \* app.py:28, the DashboardData payload
    loads,                     \* how many times load_dashboard_data has returned
    callbacks,                 \* the frames the registered callbacks close over
    response                   \* what the last served callback returned

inputs == <<orders_df, order_items_df, reviews_df, products_df, translations_df,
            customers_df, seller_df>>

base_frames == <<delivered_orders_df, order_items_delivered_df, order_cost_df>>

served == <<dashboard_data, loads, callbacks, response>>

vars == <<pc, inputs, base_frames, monthly_metrics_df, category_profitability_df,
          state_metrics_df, financial_overview, strategy_df, strategy_highlights,
          served>>

-----------------------------------------------------------------------------
(* Program constants (dashboard/data.py:18-22).                            *)

COMMISSION_RATE_DEN == 10          \* COMMISSION_RATE = 0.10 = 1/10
SUBSCRIPTION_FEE == 80
ALPHA_IT_CENTI == 315727           \* ALPHA_IT = 3157.27, in hundredths
BETA_IT_CENTI == 97823             \* BETA_IT  =  978.23, in hundredths
COST_MAP == (1 :> 100) @@ (2 :> 50) @@ (3 :> 40) @@ (4 :> 0) @@ (5 :> 0)

None == [none |-> TRUE]            \* Python's None, where a record is expected
NaN == 0 - 1                       \* pandas' NaN / NaT in a column of non-negative numbers

(* Bounds of the model.                                                    *)
MaxSellers == 3                    \* rows of the seller table
MaxReviews == 3                    \* rows of the review table, where it is enumerated
MaxItems == 2                      \* rows of the order-item table, where it is enumerated

-----------------------------------------------------------------------------
(* Arithmetic helpers.                                                     *)

\* Series.sum() of a column kept as a sequence: the sum of its two halves
RECURSIVE SumSeq(_)
SumSeq(s) ==
    IF Len(s) = 0 THEN 0
    ELSE IF Len(s) = 1 THEN s[1]
    ELSE SumSeq(SubSeq(s, 1, Len(s) \div 2))
             + SumSeq(SubSeq(s, Len(s) \div 2 + 1, Len(s)))

\* df[column] of a table kept as a sequence of rows
Column(df, c) == [i \in 1..Len(df) |-> df[i][c]]

\* np.cumsum
cumsum(s) == [i \in 1..Len(s) |-> SumSeq(SubSeq(s, 1, i))]

RECURSIVE ISqrtBetween(_, _, _)
ISqrtBetween(n, lo, hi) ==
    IF lo >= hi THEN lo
    ELSE LET mid == (lo + hi + 1) \div 2
         IN  IF mid * mid <= n THEN ISqrtBetween(n, mid, hi)
                               ELSE ISqrtBetween(n, lo, mid - 1)

\* np.sqrt, to two decimals: floor(100 * sqrt(n)) for n >= 0
Sqrt100(n) == ISqrtBetween(n * 10000, 0, 100 * n)

\* ALPHA_IT * np.sqrt(sellers) + BETA_IT * np.sqrt(items), in whole BRL
it_costs_of(sellers, items) ==
    (ALPHA_IT_CENTI * Sqrt100(sellers) + BETA_IT_CENTI * Sqrt100(items)) \div 10000

Abs(x) == IF x < 0 THEN -x ELSE x

RECURSIVE GCD(_, _)
GCD(a, b) == IF b = 0 THEN a ELSE GCD(b, a % b)

\* the fraction a / b in lowest terms with a positive denominator; a / 0 is
\* the 0.0 the code substitutes for a division by zero
Fraction(a, b) ==
    IF b = 0 \/ a = 0 THEN [num |-> 0, den |-> 1]
    ELSE LET g == GCD(Abs(a), Abs(b))
         IN  IF b < 0 THEN [num |-> (-a) \div g, den |-> (-b) \div g]
                      ELSE [num |-> a \div g, den |-> b \div g]

FracOfInt(a) == [num |-> a, den |-> 1]

FracAdd(x, y) == Fraction(x.num * y.den + y.num * x.den, x.den * y.den)

FracSub(x, y) == Fraction(x.num * y.den - y.num * x.den, x.den * y.den)

FracScale(k, x) == Fraction(k * x.num, x.den)

FracLess(x, y) == x.num * y.den < y.num * x.den

\* the sum of a function's values that are fractions
RECURSIVE FracSumFn(_)
FracSumFn(f) ==
    IF DOMAIN f = {} THEN FracOfInt(0)
    ELSE LET x == CHOOSE y \in DOMAIN f : TRUE
         IN  FracAdd(f[x], FracSumFn([y \in DOMAIN f \ {x} |-> f[y]]))

\* a quotient taken without looking at the divisor: x / 0 has no value, kept
\* here as a fraction of denominator 0
margin_unguarded(net_profit, revenues) ==
    IF revenues = 0 THEN [num |-> net_profit, den |-> 0]
    ELSE Fraction(net_profit, revenues)

\* net_profit / revenues if revenues else 0.0 (data.py:240, 333)
margin_or_zero(net_profit, revenues) ==
    IF revenues # 0 THEN Fraction(net_profit, revenues) ELSE FracOfInt(0)

\* np.divide(net_profit, revenues, out=zeros, where=revenues != 0) for one
\* position (data.py:362-367)
divide_where_nonzero(net_profit, revenues) ==
    IF revenues # 0 THEN Fraction(net_profit, revenues) ELSE FracOfInt(0)

\* Series.idxmax over integers / over fractions: the first position of a maximum
idxmax(s) == CHOOSE i \in 1..Len(s) :
                 /\ \A j \in 1..Len(s) : s[j] <= s[i]
                 /\ \A j \in 1..(i - 1) : s[j] < s[i]

idxmax_frac(s) == CHOOSE i \in 1..Len(s) :
                      /\ \A j \in 1..Len(s) : ~FracLess(s[i], s[j])
                      /\ \A j \in 1..(i - 1) : FracLess(s[j], s[i])

IndexPermutations(n) == {p \in [1..n -> 1..n] : \A i, j \in 1..n : i # j => p[i] # p[j]}

-----------------------------------------------------------------------------
(* prepare_seller_strategy_data (data.py:320-390).                         *)

\* sellers_df.sort_values(by="profits").reset_index(drop=True): pandas' default
\* sort is not stable, so rows of equal profit may come out in either order.
\* every order of the elements of a set
RECURSIVE Orderings(_)
Orderings(S) ==
    IF S = {} THEN {<<>>}
    ELSE UNION {{<<i>> \o t : t \in Orderings(S \ {i})} : i \in S}

\* the orders in which the positions of df come out of a sort by profits:
\* positions of equal profit in any order, and otherwise the positions of the
\* lower profits, sorted, before those of the higher ones
RECURSIVE positions_by_profits(_, _)
positions_by_profits(df, positions) ==
    LET values == {df[x].profits : x \in positions}
    IN  IF Cardinality(values) <= 1 THEN Orderings(positions)
        ELSE LET middle == CHOOSE v \in values :
                               Cardinality({w \in values : w <= v})
                                   = (Cardinality(values) + 1) \div 2
                 lower  == {x \in positions : df[x].profits <= middle}
             IN  {a \o b : a \in positions_by_profits(df, lower),
                           b \in positions_by_profits(df, positions \ lower)}

sort_values_descending(df) ==
    {[i \in 1..Len(df) |-> df[p[i]]] : p \in
        {q \in IndexPermutations(Len(df)) :
            \A i \in 1..(Len(df) - 1) : df[q[i]].profits >= df[q[i + 1]].profits}}

sort_values_by_profits(df) ==
    {[i \in 1..Len(df) |-> df[p[i]]] : p \in positions_by_profits(df, 1..Len(df))}

\* a baseline that leaves the IT costs out of the net profit
baseline_record_before_it_costs(sellers_df) ==
    LET n_sellers          == Len(sellers_df)
        revenues_total     == SumSeq(Column(sellers_df, "revenues"))
        review_costs_total == SumSeq(Column(sellers_df, "cost_of_reviews"))
        gross_profits_total == SumSeq(Column(sellers_df, "profits"))
        items_total        == SumSeq(Column(sellers_df, "quantity"))
        base_it_cost       == it_costs_of(n_sellers, items_total)
    IN  [sellers_removed   |-> 0,
         sellers_remaining |-> n_sellers,
         revenues          |-> revenues_total,
         review_costs      |-> review_costs_total,
         it_costs          |-> base_it_cost,
         total_costs       |-> review_costs_total + base_it_cost,
         net_profit        |-> gross_profits_total,
         margin            |-> margin_or_zero(gross_profits_total, revenues_total)]

\* the baseline record of line 335-346
baseline_record(sellers_df) ==
    LET n_sellers          == Len(sellers_df)
        revenues_total     == SumSeq(Column(sellers_df, "revenues"))
        review_costs_total == SumSeq(Column(sellers_df, "cost_of_reviews"))
        gross_profits_total == SumSeq(Column(sellers_df, "profits"))
        items_total        == SumSeq(Column(sellers_df, "quantity"))
        base_it_cost       == it_costs_of(n_sellers, items_total)
        base_net_profit    == gross_profits_total - base_it_cost
    IN  [sellers_removed   |-> 0,
         sellers_remaining |-> n_sellers,
         revenues          |-> revenues_total,
         review_costs      |-> review_costs_total,
         it_costs          |-> base_it_cost,
         total_costs       |-> review_costs_total + base_it_cost,
         net_profit        |-> base_net_profit,
         margin            |-> margin_or_zero(base_net_profit, revenues_total)]

\* values[:-1] of a column of the sorted table
AllButLast(s) == SubSeq(s, 1, Len(s) - 1)

\* np.arange(1, n_sellers): the removal counts after the baseline
steps_dropping_baseline(n_sellers) == [i \in 1..(n_sellers - 2) |-> i + 1]

steps_of(n_sellers) == [i \in 1..(n_sellers - 1) |-> i]

\* the records appended by the loop of line 369-381
removal_records(sellers_df, sorted_sellers) ==
    LET n_sellers          == Len(sorted_sellers)
        revenues_total     == SumSeq(Column(sellers_df, "revenues"))
        review_costs_total == SumSeq(Column(sellers_df, "cost_of_reviews"))
        gross_profits_total == SumSeq(Column(sellers_df, "profits"))
        items_total        == SumSeq(Column(sellers_df, "quantity"))
        steps              == steps_of(n_sellers)
        cum_profits        == cumsum(AllButLast(Column(sorted_sellers, "profits")))
        cum_review_costs   == cumsum(AllButLast(Column(sorted_sellers, "cost_of_reviews")))
        cum_revenues       == cumsum(AllButLast(Column(sorted_sellers, "revenues")))
        cum_items          == cumsum(AllButLast(Column(sorted_sellers, "quantity")))
    IN  [idx \in 1..Len(steps) |->
            LET profits_after      == gross_profits_total - cum_profits[idx]
                review_costs_after == review_costs_total - cum_review_costs[idx]
                revenues_after     == revenues_total - cum_revenues[idx]
                items_after        == items_total - cum_items[idx]
                sellers_remaining  == n_sellers - steps[idx]
                it_costs_after     == it_costs_of(sellers_remaining, items_after)
                net_profit_after   == profits_after - it_costs_after
            IN  [sellers_removed   |-> steps[idx],
                 sellers_remaining |-> sellers_remaining,
                 revenues          |-> revenues_after,
                 review_costs      |-> review_costs_after,
                 it_costs          |-> it_costs_after,
                 total_costs       |-> review_costs_after + it_costs_after,
                 net_profit        |-> net_profit_after,
                 margin            |-> divide_where_nonzero(net_profit_after,
                                                            revenues_after)]]

\* strategy_df = pd.DataFrame(records)
strategy_records(sellers_df, sorted_sellers) ==
    IF Len(sorted_sellers) > 1
    THEN <<baseline_record(sellers_df)>> \o removal_records(sellers_df, sorted_sellers)
    ELSE <<baseline_record(sellers_df)>>

\* highlights that take the last scenario of the table for both maxima
highlights_of_last_scenario(df) ==
    [baseline   |-> df[1],
     max_profit |-> df[Len(df)],
     max_margin |-> df[Len(df)]]

\* highlights (line 384-388)
highlights_of(df) ==
    [baseline   |-> df[1],
     max_profit |-> df[idxmax(Column(df, "net_profit"))],
     max_margin |-> df[idxmax_frac(Column(df, "margin"))]]

-----------------------------------------------------------------------------
(* Table helpers.                                                          *)

\* the sum of the values of f that lie in values, each counted as often as f
\* takes it
RECURSIVE SumValues(_, _)
SumValues(f, values) ==
    IF values = {} THEN 0
    ELSE LET v == CHOOSE y \in values : TRUE
         IN  v * Cardinality({x \in DOMAIN f : f[x] = v}) + SumValues(f, values \ {v})

\* Series.sum() of a column kept as a function of the rows
SumFn(f) == SumValues(f, {f[x] : x \in DOMAIN f})

\* df[df[...] satisfies keep]: the rows of a bag that lie in the set keep
BagSelect(B, keep) == [r \in (DOMAIN B) \cap keep |-> B[r]]

\* df[column].sum() over a bag of rows
BagSum(B, c) == SumFn([r \in DOMAIN B |-> B[r] * r[c]])

Max(S) == CHOOSE x \in S : \A y \in S : y <= x
Min(S) == CHOOSE x \in S : \A y \in S : x <= y

\* the keys of a groupby, which pandas returns sorted ascending
RECURSIVE SortedKeys(_)
SortedKeys(S) == IF S = {} THEN <<>> ELSE <<Min(S)>> \o SortedKeys(S \ {Min(S)})

-----------------------------------------------------------------------------
(* Calendar: series.dt.to_period("M").dt.to_timestamp() (data.py:102-104). *)

\* days of December 2017, January 2018, February 2018, March 2018
MonthDays == <<31, 31, 28, 31>>

RECURSIVE MonthStartFrom(_, _, _)
MonthStartFrom(day, m, start) ==
    IF m > Len(MonthDays) \/ day < start + MonthDays[m]
    THEN start
    ELSE MonthStartFrom(day, m + 1, start + MonthDays[m])

\* a mis-grouping: the timestamp itself instead of its month
to_period_month_identity(ts) == ts

\* the first instant of the calendar month that holds ts
to_period_month(ts) == 2 * MonthStartFrom(ts \div 2, 1, 0)

-----------------------------------------------------------------------------
(* prepare_base_frames (data.py:58-87).                                    *)

DeliveredColumns(o) ==
    [order_id                      |-> o.order_id,
     customer_id                   |-> o.customer_id,
     order_purchase_timestamp      |-> o.order_purchase_timestamp,
     order_delivered_customer_date |-> o.order_delivered_customer_date,
     order_estimated_delivery_date |-> o.order_estimated_delivery_date]

\* a filter that keeps every order whatever its status
delivered_orders_unfiltered(orders) == {DeliveredColumns(o) : o \in orders}

\* orders_df[orders_df["order_status"] == "delivered"] and the column selection
delivered_orders_of(orders) ==
    {DeliveredColumns(o) : o \in {x \in orders : x.order_status = "delivered"}}

\* order_items_df[order_items_df["order_id"].isin(delivered_orders["order_id"])]
order_items_delivered_of(order_items, delivered_orders) ==
    BagSelect(order_items,
              {r \in DOMAIN order_items :
                   r.order_id \in {o.order_id : o \in delivered_orders}})

\* reviews_df[["order_id", "review_score"]].dropna() with the mapped cost
reviews_clean_of(reviews) ==
    {[order_id        |-> r.order_id,
      review_score    |-> r.review_score,
      reputation_cost |-> COST_MAP[r.review_score]] :
         r \in {x \in DOMAIN reviews : x.review_score # NaN}}

\* an aggregation that keeps the best review of each order instead of the worst
order_cost_min(reviews) ==
    LET reviews_clean == reviews_clean_of(reviews)
        keys == SortedKeys({r.order_id : r \in reviews_clean})
    IN  [i \in 1..Len(keys) |->
            [order_id        |-> keys[i],
             reputation_cost |-> Min({r.reputation_cost :
                                        r \in {x \in reviews_clean : x.order_id = keys[i]}})]]

\* reviews_clean.groupby("order_id", as_index=False)["reputation_cost"].max()
order_cost_of(reviews) ==
    LET reviews_clean == reviews_clean_of(reviews)
        keys == SortedKeys({r.order_id : r \in reviews_clean})
    IN  [i \in 1..Len(keys) |->
            [order_id        |-> keys[i],
             reputation_cost |-> Max({r.reputation_cost :
                                        r \in {x \in reviews_clean : x.order_id = keys[i]}})]]

-----------------------------------------------------------------------------
(* compute_monthly_metrics (data.py:90-134).                               *)

\* the left merge of line 97-101: the purchase timestamp of an item's order
purchase_timestamp_of(delivered_orders, order_id) ==
    IF \E o \in delivered_orders : o.order_id = order_id
    THEN (CHOOSE o \in delivered_orders : o.order_id = order_id).order_purchase_timestamp
    ELSE NaN

\* the month column of items_with_purchase; NaT stays NaT
item_month(delivered_orders, r) ==
    LET ts == purchase_timestamp_of(delivered_orders, r.order_id)
    IN  IF ts = NaN THEN NaN ELSE to_period_month(ts)

\* the left merge of line 121-124: an order's reputation cost, NaN filled with 0
order_reputation_cost_zero(order_cost, order_id) == 0

order_reputation_cost(order_cost, order_id) ==
    IF \E i \in 1..Len(order_cost) : order_cost[i].order_id = order_id
    THEN order_cost[CHOOSE i \in 1..Len(order_cost) :
                        order_cost[i].order_id = order_id].reputation_cost
    ELSE 0

\* monthly_cost (line 121-128): month -> summed reputation cost of its orders
monthly_cost_of(delivered_orders, order_cost) ==
    [m \in {to_period_month(o.order_purchase_timestamp) : o \in delivered_orders} |->
        SumFn([o \in {x \in delivered_orders :
                          to_period_month(x.order_purchase_timestamp) = m} |->
                  order_reputation_cost(order_cost, o.order_id)])]

\* active_sellers=("seller_id", "nunique") counted per row instead of per seller
active_sellers_count_rows(rows) == BagCardinality(rows)

\* active_sellers=("seller_id", "nunique")
active_sellers_nunique(rows) == Cardinality({r.seller_id : r \in DOMAIN rows})

\* monthly["gmv"] with the freight left out
gmv_without_freight(gross_sales, freight) == gross_sales

\* monthly["gmv"] = monthly["gross_sales"] + monthly["freight"]
gmv_of(gross_sales, freight) == gross_sales + freight

\* gross_sales * COMMISSION_RATE
commission_of(gross_sales) == gross_sales \div COMMISSION_RATE_DEN

compute_monthly_metrics(delivered_orders, order_items_delivered, order_cost) ==
    LET month_of_item == [r \in DOMAIN order_items_delivered |->
                              item_month(delivered_orders, r)]
        months == SortedKeys({month_of_item[r] : r \in DOMAIN order_items_delivered}
                                 \ {NaN})
        monthly_cost == monthly_cost_of(delivered_orders, order_cost)
    IN  [i \in 1..Len(months) |->
            LET rows == BagSelect(order_items_delivered,
                                  {r \in DOMAIN order_items_delivered :
                                       month_of_item[r] = months[i]})
                gross_sales == BagSum(rows, "price")
                freight == BagSum(rows, "freight_value")
                active_sellers == active_sellers_nunique(rows)
                olist_commission == commission_of(gross_sales)
                subscription_revenue == active_sellers * SUBSCRIPTION_FEE
                olist_revenue == olist_commission + subscription_revenue
                reputation_cost == IF months[i] \in DOMAIN monthly_cost
                                   THEN monthly_cost[months[i]] ELSE 0
            IN  [month                |-> months[i],
                 gross_sales          |-> gross_sales,
                 freight              |-> freight,
                 active_sellers       |-> active_sellers,
                 gmv                  |-> gmv_of(gross_sales, freight),
                 olist_commission     |-> olist_commission,
                 subscription_revenue |-> subscription_revenue,
                 olist_revenue        |-> olist_revenue,
                 reputation_cost      |-> reputation_cost,
                 net_revenue          |-> olist_revenue - reputation_cost]]

-----------------------------------------------------------------------------
(* compute_category_profitability (data.py:137-179).                       *)

NaNStr == "NaN"                    \* pandas' NaN in a column of strings

\* the left merge of line 145-149: the category name of an item's product
product_category_name_of(products, product_id) ==
    IF \E q \in products : q.product_id = product_id
    THEN (CHOOSE q \in products : q.product_id = product_id).product_category_name
    ELSE NaNStr

\* a labelling that skips the fall-back on the untranslated name
product_category_translated_only(products, translations, r) ==
    LET name == product_category_name_of(products, r.product_id)
    IN  IF \E t \in translations : t.product_category_name = name
        THEN (CHOOSE t \in translations :
                  t.product_category_name = name).product_category_name_english
        ELSE "Unknown"

\* line 151-158: the translation, else the name itself, else "Unknown"
product_category_of(products, translations, r) ==
    LET name == product_category_name_of(products, r.product_id)
    IN  IF name # NaNStr /\ \E t \in translations : t.product_category_name = name
        THEN (CHOOSE t \in translations :
                  t.product_category_name = name).product_category_name_english
        ELSE IF name # NaNStr THEN name
        ELSE "Unknown"

\* line 160: items.groupby("order_id")["price"].transform("sum")
order_price_total(items, order_id) ==
    BagSum(BagSelect(items, {r \in DOMAIN items : r.order_id = order_id}), "price")

\* an allocation of the full cost to every item of the order
reputation_cost_unshared(items, order_cost, r) ==
    FracOfInt(order_reputation_cost(order_cost, r.order_id))

\* line 161-168: price_share * order_reputation_cost, 0 when the order totals 0
reputation_cost_allocated(items, order_cost, r) ==
    Fraction(r.price * order_reputation_cost(order_cost, r.order_id),
             order_price_total(items, r.order_id))

\* line 170-176: the rows of the category table, before they are sorted
category_rows(order_items_delivered, products, translations, order_cost) ==
    LET category_of == [r \in DOMAIN order_items_delivered |->
                            product_category_of(products, translations, r)]
    IN  {LET rows == BagSelect(order_items_delivered,
                               {r \in DOMAIN order_items_delivered : category_of[r] = c})
             gross_sales == BagSum(rows, "price")
             reputation_cost ==
                 FracSumFn([r \in DOMAIN rows |->
                     FracScale(rows[r],
                         reputation_cost_allocated(order_items_delivered, order_cost, r))])
             olist_commission == commission_of(gross_sales)
         IN  [product_category |-> c,
              gross_sales      |-> gross_sales,
              reputation_cost  |-> reputation_cost,
              order_count      |-> Cardinality({r.order_id : r \in DOMAIN rows}),
              olist_commission |-> olist_commission,
              net_profit       |-> FracSub(FracOfInt(olist_commission), reputation_cost)] :
         c \in {category_of[r] : r \in DOMAIN order_items_delivered}}

\* every arrangement of a set of rows as a table
TablesOf(rows) ==
    {[i \in 1..Cardinality(rows) |-> f[i]] :
        f \in {g \in [1..Cardinality(rows) -> rows] :
                  \A i, j \in 1..Cardinality(rows) : i # j => g[i] # g[j]}}

\* category.sort_values("net_profit", ascending=True)
category_sorted_ascending(rows) ==
    {t \in TablesOf(rows) :
        \A i \in 1..(Len(t) - 1) : ~FracLess(t[i + 1].net_profit, t[i].net_profit)}

\* category.sort_values("net_profit", ascending=False): the sort is not stable,
\* so rows of equal net_profit may come out in either order: every table that
\* starts with a row of largest net_profit and goes on with the others
RECURSIVE category_sorted(_)
category_sorted(rows) ==
    IF rows = {} THEN {<<>>}
    ELSE UNION {{<<r>> \o t : t \in category_sorted(rows \ {r})} :
                   r \in {x \in rows :
                             \A y \in rows : ~FracLess(x.net_profit, y.net_profit)}}

-----------------------------------------------------------------------------
(* compute_state_metrics (data.py:182-225).                                *)

\* dashboard/utils.py:26-54, the accents of the names dropped
STATE_NAME_MAP ==
    [AC |-> "Acre", AL |-> "Alagoas", AP |-> "Amapa", AM |-> "Amazonas",
     BA |-> "Bahia", CE |-> "Ceara", DF |-> "Distrito Federal",
     ES |-> "Espirito Santo", GO |-> "Goias", MA |-> "Maranhao",
     MT |-> "Mato Grosso", MS |-> "Mato Grosso do Sul", MG |-> "Minas Gerais",
     PA |-> "Para", PB |-> "Paraiba", PR |-> "Parana", PE |-> "Pernambuco",
     PI |-> "Piaui", RJ |-> "Rio de Janeiro", RN |-> "Rio Grande do Norte",
     RS |-> "Rio Grande do Sul", RO |-> "Rondonia", RR |-> "Roraima",
     SC |-> "Santa Catarina", SP |-> "Sao Paulo", SE |-> "Sergipe",
     TO |-> "Tocantins"]

\* the left merge of line 192-196
customer_state_of(customers, customer_id) ==
    IF \E c \in customers : c.customer_id = customer_id
    THEN (CHOOSE c \in customers : c.customer_id = customer_id).customer_state
    ELSE NaNStr

\* line 207-212: whole days late, 0 when either date is missing
delivery_delay_of(o) ==
    IF o.order_delivered_customer_date = NaN \/ o.order_estimated_delivery_date = NaN
    THEN 0
    ELSE (o.order_delivered_customer_date - o.order_estimated_delivery_date) \div 2

\* line 200-204: the scores of an order's reviews, NaN scores dropped
review_scores_of(reviews, order_id) ==
    BagSelect(reviews, {r \in DOMAIN reviews :
                            r.order_id = order_id /\ r.review_score # NaN})

\* the mean of those scores (the order has at least one)
review_score_mean(reviews, order_id) ==
    LET scores == review_scores_of(reviews, order_id)
    IN  Fraction(BagSum(scores, "review_score"), BagCardinality(scores))

\* line 214-220 and 222-224: the rows of the state table, before they are sorted
state_rows(delivered_orders, order_items_delivered, customers, reviews) ==
    LET state_of == [o \in delivered_orders |->
                         customer_state_of(customers, o.customer_id)]
        reviewed == {o \in delivered_orders :
                         DOMAIN review_scores_of(reviews, o.order_id) # {}}
    IN  {LET orders == {o \in delivered_orders : state_of[o] = st}
             scored == orders \cap reviewed
         IN  [customer_state      |-> st,
              avg_delay           |-> Fraction(SumFn([o \in orders |-> delivery_delay_of(o)]),
                                               Cardinality(orders)),
              avg_review          |-> LET total == FracSumFn([o \in scored |->
                                              review_score_mean(reviews, o.order_id)])
                                      IN  Fraction(total.num,
                                                   total.den * Cardinality(scored)),
              order_count         |-> Cardinality({o.order_id : o \in orders}),
              olist_commission    |-> SumFn([o \in orders |->
                                          commission_of(order_price_total(
                                              order_items_delivered, o.order_id))]),
              customer_state_name |-> IF st \in DOMAIN STATE_NAME_MAP
                                      THEN STATE_NAME_MAP[st] ELSE st] :
         st \in {state_of[o] : o \in {x \in delivered_orders :
                     /\ state_of[x] # NaNStr
                     /\ \E y \in reviewed : state_of[y] = state_of[x]}}}

\* state_metrics.sort_values("order_count", ascending=True)
state_sorted_ascending(rows) ==
    {t \in TablesOf(rows) :
        \A i \in 1..(Len(t) - 1) : t[i].order_count <= t[i + 1].order_count}

\* state_metrics.sort_values("order_count", ascending=False); not a stable
\* sort, so rows of equal order_count may come out in either order: every table
\* that starts with a row of largest order_count and goes on with the others
RECURSIVE state_sorted(_)
state_sorted(rows) ==
    IF rows = {} THEN {<<>>}
    ELSE UNION {{<<r>> \o t : t \in state_sorted(rows \ {r})} :
                   r \in {x \in rows : \A y \in rows : y.order_count <= x.order_count}}

-----------------------------------------------------------------------------
(* compute_financial_overview (data.py:228-253).                           *)

compute_financial_overview(sellers_df) ==
    LET revenues_total == SumSeq(Column(sellers_df, "revenues"))
        seller_count   == Len(sellers_df)
        item_count     == SumSeq(Column(sellers_df, "quantity"))
        costs_it       == it_costs_of(seller_count, item_count)
        profits_gross  == SumSeq(Column(sellers_df, "profits"))
        profits_net    == profits_gross - costs_it
    IN  [revenues_sales        |-> commission_of(SumSeq(Column(sellers_df, "sales"))),
         revenues_subscription |-> SumSeq(Column(sellers_df, "months_on_olist"))
                                       * SUBSCRIPTION_FEE,
         revenues_total        |-> revenues_total,
         costs_reviews         |-> SumSeq(Column(sellers_df, "cost_of_reviews")),
         costs_it              |-> costs_it,
         profits_gross         |-> profits_gross,
         profits_net           |-> profits_net,
         margin                |-> margin_or_zero(profits_net, revenues_total),
         seller_count          |-> seller_count,
         item_count            |-> item_count]

-----------------------------------------------------------------------------
(* build_waterfall_figure (data.py:256-317).  format_brl rounds to a whole *)
(* number of BRL and adds the unit; here a formatted amount is the pair of *)
(* the unit and that whole number.                                         *)

format_brl(value) == [unit |-> "BRL", value |-> value]

\* format_percent and the other formats of a quotient keep the exact fraction
format_percent(value) == [unit |-> "%", value |-> value]

build_waterfall_figure(financials) ==
    [measure |-> <<"relative", "relative", "total", "relative", "total",
                   "relative", "total">>,
     x       |-> <<"Subscriptions", "Sales fees", "Total revenues", "Review costs",
                   "Gross profit", "IT costs", "Net profit">>,
     y       |-> <<financials.revenues_subscription, financials.revenues_sales, 0,
                   -financials.costs_reviews, 0, -financials.costs_it, 0>>,
     text    |-> <<format_brl(financials.revenues_subscription),
                   format_brl(financials.revenues_sales),
                   format_brl(financials.revenues_total),
                   format_brl(-financials.costs_reviews),
                   format_brl(financials.profits_gross),
                   format_brl(-financials.costs_it),
                   format_brl(financials.profits_net)>>]

-----------------------------------------------------------------------------
(* The rest of load_dashboard_data (data.py:450-539).                      *)

\* _build_slider_marks: the marked positions (each labelled with its numeral)
build_slider_marks(max_value, step_hint) ==
    LET marks == IF max_value <= 10 THEN 0..max_value
                 ELSE {v \in 0..max_value : v % step_hint = 0}
    IN  IF max_value \notin marks /\ max_value > 0 THEN marks \cup {max_value}
        ELSE marks

\* a slider maximum without the upper limit
category_slider_max_unclamped(category_df) == Max({5, Len(category_df)})

\* line 450
category_slider_max_of(category_df) == Max({5, Min({20, Len(category_df)})})

\* a state slider that starts at 500 whatever its maximum
state_slider_default_500(state_df) ==
    LET max_state_orders == IF state_df # <<>>
                            THEN Max({state_df[i].order_count : i \in DOMAIN state_df})
                            ELSE 0
        state_step == IF max_state_orders >= 400 THEN 50 ELSE 10
    IN  [max     |-> max_state_orders,
         marks   |-> build_slider_marks(max_state_orders, state_step),
         default |-> IF max_state_orders # 0 THEN 500 ELSE 0,
         step    |-> state_step]

\* line 452-461
state_slider_of(state_df) ==
    LET max_state_orders == IF state_df # <<>>
                            THEN Max({state_df[i].order_count : i \in DOMAIN state_df})
                            ELSE 0
        state_step == IF max_state_orders >= 400 THEN 50 ELSE 10
    IN  [max     |-> max_state_orders,
         marks   |-> build_slider_marks(max_state_orders, state_step),
         default |-> IF max_state_orders # 0 THEN Min({500, max_state_orders}) ELSE 0,
         step    |-> state_step]

\* spotlights that take the state with most orders for all three
customer_spotlights_first_row(state_df) ==
    IF state_df = <<>>
    THEN {[worst_delay |-> None, best_delay |-> None, best_review |-> None]}
    ELSE {[worst_delay |-> state_df[1], best_delay |-> state_df[1],
           best_review |-> state_df[1]]}

\* line 463-473: sort_values(...).iloc[0] is a row with the extreme value; the
\* sort is not stable, so among equal rows it may be any of them
customer_spotlights_of(state_df) ==
    IF state_df = <<>>
    THEN {[worst_delay |-> None, best_delay |-> None, best_review |-> None]}
    ELSE LET rows == {state_df[i] : i \in DOMAIN state_df}
         IN  {[worst_delay |-> w, best_delay |-> b, best_review |-> r] :
                  w \in {x \in rows : \A y \in rows : ~FracLess(x.avg_delay, y.avg_delay)},
                  b \in {x \in rows : \A y \in rows : ~FracLess(y.avg_delay, x.avg_delay)},
                  r \in {x \in rows : \A y \in rows : ~FracLess(x.avg_review, y.avg_review)}}

\* line 475-488
strategy_slider_of(strategy, highlights) ==
    LET strategy_slider_max == IF strategy # <<>>
                               THEN Max({strategy[i].sellers_removed : i \in DOMAIN strategy})
                               ELSE 0
        strategy_step == IF strategy_slider_max >= 400 THEN 50 ELSE 10
    IN  [max     |-> strategy_slider_max,
         marks   |-> build_slider_marks(strategy_slider_max, strategy_step),
         default |-> IF strategy_slider_max # 0
                     THEN highlights.max_profit.sellers_removed ELSE 0,
         step    |-> strategy_step]

\* DataFrame.head(n)
head(df, n) == SubSeq(df, 1, Min({n, Len(df)}))

\* line 494-505: the net revenue of the last month and its change
latest_net_revenue_of(monthly) ==
    IF Len(monthly) >= 1 THEN monthly[Len(monthly)].net_revenue ELSE 0

net_revenue_change_of(monthly) ==
    IF Len(monthly) >= 2
    THEN monthly[Len(monthly)].net_revenue - monthly[Len(monthly) - 1].net_revenue
    ELSE 0

\* dashboard/utils.py:57-62, in the order of the dictionary
METRIC_LABELS ==
    <<[value |-> "net_revenue",     label |-> "Net revenue after reputation cost"],
      [value |-> "olist_revenue",   label |-> "Total platform revenue"],
      [value |-> "reputation_cost", label |-> "Reputation costs"],
      [value |-> "gmv",             label |-> "Total marketplace sales"]>>

\* the DashboardData of line 517-539
dashboard_data_of(spotlight) ==
    LET top_categories == head(category_profitability_df, 3)
    IN  [financial_overview     |-> financial_overview,
         waterfall_figure       |-> build_waterfall_figure(financial_overview),
         monthly_metrics        |-> monthly_metrics_df,
         category_profitability |-> category_profitability_df,
         category_slider_max    |-> category_slider_max_of(category_profitability_df),
         monthly_metric_options |-> METRIC_LABELS,
         state_metrics          |-> state_metrics_df,
         state_slider           |-> state_slider_of(state_metrics_df),
         customer_spotlight     |-> spotlight,
         strategy_df            |-> strategy_df,
         strategy_highlights    |-> strategy_highlights,
         strategy_slider        |-> strategy_slider_of(strategy_df, strategy_highlights),
         top_category_names     |-> Column(top_categories, "product_category"),
         top_category_profit    |-> FracSumFn(Column(top_categories, "net_profit")),
         latest_net_revenue     |-> latest_net_revenue_of(monthly_metrics_df),
         net_revenue_change     |-> net_revenue_change_of(monthly_metrics_df),
         baseline_strategy      |-> strategy_highlights.baseline,
         profit_strategy        |-> strategy_highlights.max_profit,
         margin_strategy        |-> strategy_highlights.max_margin,
         profit_uplift          |-> strategy_highlights.max_profit.net_profit
                                        - strategy_highlights.baseline.net_profit,
         margin_uplift          |-> FracSub(strategy_highlights.max_margin.margin,
                                            strategy_highlights.baseline.margin)]

-----------------------------------------------------------------------------
(* Values a Dash client sends.  A value that may be None is None or        *)
(* Just(v); a number is sent in halves, so that int() has something to     *)
(* truncate: Just(5) is the slider value 2.5.                              *)

Just(v) == [value |-> v]

\* int(x): truncation towards zero
int_of(halves) == IF halves >= 0 THEN halves \div 2 ELSE -((-halves) \div 2)

\* DataFrame.nlargest(n, column): the n rows of largest key, largest first,
\* rows of equal key in their order in the table; keys are fractions
nlargest(df, keys, n) ==
    LET rank == [i \in DOMAIN df |->
                    1 + Cardinality({j \in DOMAIN df :
                            \/ FracLess(keys[i], keys[j])
                            \/ (keys[j] = keys[i] /\ j < i)})]
    IN  [k \in 1..Min({Max({n, 0}), Len(df)}) |->
            df[CHOOSE i \in DOMAIN df : rank[i] = k]]

Reverse(t) == [i \in 1..Len(t) |-> t[Len(t) + 1 - i]]

-----------------------------------------------------------------------------
(* sections/revenue_drivers.py.                                            *)

\* layout (line 21-82): the checklist and the slider it builds
revenue_drivers_layout(data) ==
    [page      |-> "drivers",
     checklist |-> [options |-> data.monthly_metric_options,
                    value   |-> SelectSeq(Column(data.monthly_metric_options, "value"),
                                          LAMBDA v : v # "gmv")],
     slider    |-> [min   |-> 5,
                    max   |-> data.category_slider_max,
                    step  |-> 1,
                    value |-> Min({10, data.category_slider_max}),
                    marks |-> {i \in 5..data.category_slider_max : (i - 5) % 5 = 0}]]

MonthlyColumns == {"month", "gross_sales", "freight", "active_sellers", "gmv",
                   "olist_commission", "subscription_revenue", "olist_revenue",
                   "reputation_cost", "net_revenue"}

\* METRIC_LABELS.get(metric, metric)
metric_label(metric) ==
    IF \E i \in DOMAIN METRIC_LABELS : METRIC_LABELS[i].value = metric
    THEN METRIC_LABELS[CHOOSE i \in DOMAIN METRIC_LABELS :
                           METRIC_LABELS[i].value = metric].label
    ELSE metric

\* a callback that plots an empty selection as it is
update_monthly_metrics_without_default(monthly, selected_metrics) ==
    LET selected == IF selected_metrics = None THEN <<>> ELSE selected_metrics.value
    IN  IF \E i \in DOMAIN selected : selected[i] \notin MonthlyColumns
        THEN [error |-> "KeyError"]
        ELSE [x      |-> Column(monthly, "month"),
              traces |-> [i \in DOMAIN selected |->
                             [name |-> metric_label(selected[i]),
                              y    |-> Column(monthly, selected[i])]]]

\* update_monthly_metrics (line 95-118): one trace per selected metric
update_monthly_metrics(monthly, selected_metrics) ==
    LET selected == IF selected_metrics = None THEN <<"net_revenue">>
                    ELSE IF selected_metrics.value = <<>> THEN <<"net_revenue">>
                    ELSE selected_metrics.value
    IN  IF \E i \in DOMAIN selected : selected[i] \notin MonthlyColumns
        THEN [error |-> "KeyError"]
        ELSE [x      |-> Column(monthly, "month"),
              traces |-> [i \in DOMAIN selected |->
                             [name |-> metric_label(selected[i]),
                              y    |-> Column(monthly, selected[i])]]]

\* update_category_profit (line 124-155): one bar per displayed category
update_category_profit(category, top_n) ==
    IF top_n = None THEN [error |-> "TypeError"]
    ELSE LET n == Max({1, int_of(top_n.value)})
             limited_df == Reverse(nlargest(category, Column(category, "net_profit"), n))
         IN  [bars |-> [i \in DOMAIN limited_df |->
                 [product_category |-> limited_df[i].product_category,
                  net_profit       |-> limited_df[i].net_profit,
                  olist_commission |-> limited_df[i].olist_commission,
                  reputation_cost  |-> limited_df[i].reputation_cost,
                  order_count      |-> limited_df[i].order_count,
                  profit_margin    |->
                      Fraction(limited_df[i].net_profit.num,
                               limited_df[i].net_profit.den
                                   * limited_df[i].olist_commission)]]]

\* a callback that trims the frame it closes over instead of a copy of it
category_frame_trimmed_in_place(category, top_n) ==
    IF top_n = None THEN category
    ELSE nlargest(category, Column(category, "net_profit"),
                  Max({1, int_of(top_n.value)}))

\* what update_category_profit leaves in category_profitability_df: line 126
\* takes .copy() of the selection and line 127 adds the column to that copy
category_frame_after_update(category, top_n) == category

-----------------------------------------------------------------------------
(* sections/customer_trust.py.                                             *)

\* layout (line 29-107): the spotlight cards and the slider
customer_trust_layout(data) ==
    LET spotlight == data.customer_spotlight
    IN  [page |-> "customers",
         spotlight_boxes |->
             (IF spotlight.worst_delay # None
              THEN <<[card  |-> "worst_delay",
                      state |-> spotlight.worst_delay.customer_state_name,
                      value |-> spotlight.worst_delay.avg_delay]>>
              ELSE <<>>)
             \o (IF spotlight.best_delay # None
                 THEN <<[card  |-> "best_delay",
                         state |-> spotlight.best_delay.customer_state_name,
                         value |-> spotlight.best_delay.avg_delay]>>
                 ELSE <<>>)
             \o (IF spotlight.best_review # None
                 THEN <<[card  |-> "best_review",
                         state |-> spotlight.best_review.customer_state_name,
                         value |-> spotlight.best_review.avg_review]>>
                 ELSE <<>>),
         slider |-> [min   |-> 0,
                     max   |-> data.state_slider.max,
                     step  |-> IF data.state_slider.max # 0
                               THEN data.state_slider.step ELSE 1,
                     value |-> data.state_slider.default,
                     marks |-> data.state_slider.marks]]

\* a callback that plots the selection even when it is empty
update_state_scatter_without_fallback(state, min_orders) ==
    [points |-> SelectSeq(state, LAMBDA row :
        row.order_count >= (IF min_orders = None THEN 0 ELSE int_of(min_orders.value)))]

\* update_state_scatter (line 119-149): one point per plotted state
update_state_scatter(state, min_orders) ==
    LET minimum  == IF min_orders = None THEN 0 ELSE int_of(min_orders.value)
        filtered == SelectSeq(state, LAMBDA row : row.order_count >= minimum)
    IN  [points |-> IF filtered = <<>>
                    THEN nlargest(state,
                                  [i \in DOMAIN state |-> FracOfInt(state[i].order_count)],
                                  10)
                    ELSE filtered]

\* a callback that filters the frame it closes over instead of a copy of it
state_frame_filtered_in_place(state, min_orders) ==
    SelectSeq(state, LAMBDA row :
        row.order_count >= (IF min_orders = None THEN 0 ELSE int_of(min_orders.value)))

\* what update_state_scatter leaves in state_metrics_df: line 121 and 124
\* take .copy() of the selection
state_frame_after_update(state, min_orders) == state

-----------------------------------------------------------------------------
(* sections/seller_strategy.py.                                            *)

\* layout (line 22-79)
seller_strategy_layout(data) ==
    [page |-> "strategy",
     highlight_cards |->
         <<[card      |-> "Profit-max scenario",
            value     |-> format_brl(data.strategy_highlights.max_profit.net_profit),
            removed   |-> data.strategy_highlights.max_profit.sellers_removed,
            remaining |-> data.strategy_highlights.max_profit.sellers_remaining],
           [card      |-> "Margin-max scenario",
            value     |-> format_percent(data.strategy_highlights.max_margin.margin),
            removed   |-> data.strategy_highlights.max_margin.sellers_removed]>>,
     slider |-> [min   |-> 0,
                 max   |-> data.strategy_slider.max,
                 step  |-> IF data.strategy_slider.max # 0
                           THEN data.strategy_slider.step ELSE 1,
                 value |-> data.strategy_slider.default,
                 marks |-> data.strategy_slider.marks]]

\* Series.idxmin: the first position of a minimum
idxmin(s) == CHOOSE i \in 1..Len(s) :
                 /\ \A j \in 1..Len(s) : s[i] <= s[j]
                 /\ \A j \in 1..(i - 1) : s[i] < s[j]

\* a selection that falls back on the baseline row instead of the nearest one
selected_row_index_or_baseline(strategy, selected_value) ==
    LET selected == IF selected_value = None THEN 0 ELSE int_of(selected_value.value)
    IN  IF \E i \in DOMAIN strategy : strategy[i].sellers_removed = selected
        THEN Min({i \in DOMAIN strategy : strategy[i].sellers_removed = selected})
        ELSE 1

\* line 97-103: the row of the scenario the slider value selects
selected_row_index(strategy, selected_value) ==
    LET selected == IF selected_value = None THEN 0 ELSE int_of(selected_value.value)
    IN  IF \E i \in DOMAIN strategy : strategy[i].sellers_removed = selected
        THEN Min({i \in DOMAIN strategy : strategy[i].sellers_removed = selected})
        ELSE idxmin([i \in DOMAIN strategy |->
                        Abs(strategy[i].sellers_removed - selected)])

\* update_seller_strategy (line 93-186)
update_seller_strategy(strategy, highlights, selected_value) ==
    IF strategy = <<>>
    THEN [figure |-> None, summary |-> <<"Seller analytics unavailable.">>]
    ELSE LET selected_row == strategy[selected_row_index(strategy, selected_value)]
             selected     == selected_row.sellers_removed
         IN  [figure |->
                 [lines |-> [m \in {"net_profit", "revenues", "total_costs"} |->
                                [x |-> Column(strategy, "sellers_removed"),
                                 y |-> Column(strategy, m)]],
                  vline |-> selected],
              summary |->
                 [scenario      |-> selected,
                  net_profit    |-> format_brl(selected_row.net_profit),
                  revenues      |-> format_brl(selected_row.revenues),
                  total_costs   |-> format_brl(selected_row.total_costs),
                  remaining     |-> selected_row.sellers_remaining,
                  margin        |-> format_percent(selected_row.margin),
                  profit_max    |-> [removed    |-> highlights.max_profit.sellers_removed,
                                     net_profit |-> format_brl(highlights.max_profit.net_profit)],
                  margin_max    |-> [removed |-> highlights.max_margin.sellers_removed,
                                     margin  |-> format_percent(highlights.max_margin.margin)]]]

-----------------------------------------------------------------------------
(* sections/overview.py and sections/actions.py.                           *)

\* overview.layout (line 19-88)
overview_layout(data) ==
    LET financials        == data.financial_overview
        rev_sales         == financials.revenues_sales
        rev_subscriptions == financials.revenues_subscription
    IN  [page            |-> "overview",
         kpi_cards       |-> <<[card  |-> "Total revenue",
                                value |-> format_brl(financials.revenues_total)],
                               [card  |-> "Net profit",
                                value |-> format_brl(financials.profits_net)],
                               [card  |-> "Net margin",
                                value |-> format_percent(financials.margin)],
                               [card  |-> "Active sellers",
                                value |-> financials.seller_count]>>,
         dominant_stream |-> IF rev_sales >= rev_subscriptions
                             THEN "Sales fees" ELSE "Subscriptions",
         dominant_value  |-> format_brl(Max({rev_sales, rev_subscriptions})),
         other_value     |-> format_brl(Min({rev_sales, rev_subscriptions})),
         costs_reviews   |-> format_brl(financials.costs_reviews),
         figure          |-> data.waterfall_figure]

\* _format_revenue_trend (actions.py:22-28)
\* a trend text that prints the change with its sign
format_revenue_trend_signed(change) ==
    IF change > 0 THEN [arrow |-> "up", amount |-> format_brl(change)]
    ELSE IF change < 0 THEN [arrow |-> "down", amount |-> format_brl(change)]
    ELSE [arrow |-> "flat"]

format_revenue_trend(change) ==
    IF change > 0 THEN [arrow |-> "up", amount |-> format_brl(Abs(change))]
    ELSE IF change < 0 THEN [arrow |-> "down", amount |-> format_brl(Abs(change))]
    ELSE [arrow |-> "flat"]

\* format_category_name replaces "_" by " " and capitalises; the name is kept
format_category_name(name) == [title |-> name]

\* actions.layout (line 31-147)
actions_layout(data) ==
    LET labels == [i \in DOMAIN data.top_category_names |->
                       format_category_name(data.top_category_names[i])]
        revenue_trend_text == format_revenue_trend(data.net_revenue_change)
        profit_phrase ==
            IF data.profit_uplift >= 0
            THEN [phrase |-> "unlocks", amount |-> format_brl(data.profit_uplift)]
            ELSE [phrase |-> "reduces profit by",
                  amount |-> format_brl(Abs(data.profit_uplift))]
        margin_phrase ==
            IF data.margin_uplift.num >= 0
            THEN [phrase |-> "Margin would move",
                  from   |-> format_percent(data.baseline_strategy.margin),
                  to     |-> format_percent(data.margin_strategy.margin)]
            ELSE [phrase |-> "Margin would decline by",
                  amount |-> format_percent(FracSub(FracOfInt(0), data.margin_uplift))]
        worst_state == data.customer_spotlight.worst_delay
        best_delay_state == data.customer_spotlight.best_delay
        best_review_state == data.customer_spotlight.best_review
    IN  [page |-> "actions",
         key_numbers |->
             <<[card  |-> "Latest monthly net revenue",
                value |-> format_brl(data.latest_net_revenue),
                note  |-> revenue_trend_text],
               [card  |-> "Profit uplift on table",
                value |-> format_brl(data.profit_uplift),
                note  |-> data.profit_strategy.sellers_removed],
               [card  |-> "Lean margin scenario",
                value |-> format_percent(data.margin_strategy.margin),
                note  |-> margin_phrase]>>,
         recommendations |->
             <<[item   |-> "revenue",
                amount |-> format_brl(data.latest_net_revenue),
                trend  |-> revenue_trend_text]>>
             \o (IF worst_state # None /\ best_delay_state # None
                 THEN <<[item  |-> "delivery",
                         worst |-> worst_state.customer_state_name,
                         delay |-> worst_state.avg_delay,
                         best  |-> best_delay_state.customer_state_name,
                         best_delay |-> best_delay_state.avg_delay]>>
                 ELSE <<>>)
             \o <<[item       |-> "categories",
                   categories |-> IF labels # <<>> THEN labels
                                  ELSE <<[title |-> "key categories"]>>,
                   profit     |-> format_brl(data.top_category_profit)],
                  [item      |-> "pruning",
                   removed   |-> data.profit_strategy.sellers_removed,
                   phrase    |-> profit_phrase,
                   remaining |-> data.profit_strategy.sellers_remaining]>>
             \o (IF best_review_state # None
                 THEN <<[item   |-> "promoters",
                         state  |-> best_review_state.customer_state_name,
                         review |-> best_review_state.avg_review]>>
                 ELSE <<>>)]

-----------------------------------------------------------------------------
(* app.py.                                                                 *)

\* dashboard/styles.py:10-16
NAV_ITEMS ==
    <<[label |-> "Executive Overview", path |-> "/"],
      [label |-> "Revenue Drivers",    path |-> "/drivers"],
      [label |-> "Customer Trust",     path |-> "/customers"],
      [label |-> "Seller Strategy",    path |-> "/strategy"],
      [label |-> "CEO Next Moves",     path |-> "/actions"]>>

\* pathname or "/"
path_of(pathname) ==
    IF pathname = None THEN "/" ELSE IF pathname.value = "" THEN "/" ELSE pathname.value

\* render_navigation (line 41-65)
render_navigation(data, pathname) ==
    [nav_links |-> [i \in DOMAIN NAV_ITEMS |->
                       [label  |-> NAV_ITEMS[i].label,
                        href   |-> NAV_ITEMS[i].path,
                        active |-> path_of(pathname) = NAV_ITEMS[i].path]],
     subtitle  |-> [sellers |-> data.financial_overview.seller_count,
                    items   |-> data.financial_overview.item_count]]

\* a router that matches the path exactly against "/" only
render_page_without_alias(data, pathname) ==
    LET path == path_of(pathname)
    IN  IF path = "/" THEN overview_layout(data)
        ELSE IF path = "/drivers" THEN revenue_drivers_layout(data)
        ELSE IF path = "/customers" THEN customer_trust_layout(data)
        ELSE IF path = "/strategy" THEN seller_strategy_layout(data)
        ELSE IF path = "/actions" THEN actions_layout(data)
        ELSE [page     |-> "not found",
              children |-> <<[card |-> "Page not found"], overview_layout(data)>>]

\* render_page (line 68-97)
render_page(data, pathname) ==
    LET path == path_of(pathname)
    IN  IF path \in {"/", "/overview"} THEN overview_layout(data)
        ELSE IF path = "/drivers" THEN revenue_drivers_layout(data)
        ELSE IF path = "/customers" THEN customer_trust_layout(data)
        ELSE IF path = "/strategy" THEN seller_strategy_layout(data)
        ELSE IF path = "/actions" THEN actions_layout(data)
        ELSE [page     |-> "not found",
              children |-> <<[card |-> "Page not found"], overview_layout(data)>>]

\* update_shell (line 119-127)
update_shell(data, pathname) ==
    [navigation |-> render_navigation(data, pathname),
     content    |-> render_page(data, pathname)]

-----------------------------------------------------------------------------
(* Input tables.                                                           *)

\* Rows of Seller().get_training_data(): revenues = sales / 10 + 80 * months,
\* profits = revenues - cost_of_reviews.  Two rows tie on profits.
SellerRows ==
    { [sales |-> 92000, months_on_olist |-> 10, revenues |-> 10000,
       cost_of_reviews |-> 0,    profits |-> 10000, quantity |-> 4],
      [sales |-> 2000,  months_on_olist |-> 10, revenues |-> 1000,
       cost_of_reviews |-> 3000, profits |-> -2000, quantity |-> 1],
      [sales |-> 22000, months_on_olist |-> 10, revenues |-> 3000,
       cost_of_reviews |-> 2000, profits |-> 1000,  quantity |-> 9],
      [sales |-> 52000, months_on_olist |-> 10, revenues |-> 6000,
       cost_of_reviews |-> 5000, profits |-> 1000,  quantity |-> 1],
      [sales |-> 0,     months_on_olist |-> 0,  revenues |-> 0,
       cost_of_reviews |-> 0,    profits |-> 0,     quantity |-> 0] }

SellerTables == UNION {[1..n -> SellerRows] : n \in 0..MaxSellers}

\* the bag of the rows of a sequence
SeqToBag(s) ==
    [r \in {s[i] : i \in DOMAIN s} |-> Cardinality({i \in DOMAIN s : s[i] = r})]

\* every bag of at most n rows drawn from Rows
BagsUpTo(Rows, n) == {SeqToBag(s) : s \in UNION {[1..k -> Rows] : k \in 0..n}}

\* an order; order_id is the key of the orders table and each order has its own
\* customer, as in the Olist dataset
OrderRow(id, status, purchased) ==
    [order_id                      |-> id,
     customer_id                   |-> id,
     order_status                  |-> status,
     order_purchase_timestamp      |-> purchased,
     order_delivered_customer_date |-> NaN,
     order_estimated_delivery_date |-> purchased + 40]

\* 2017-12-05 00:00 is 8, 2017-12-20 12:00 is 39, 2018-01-03 00:00 is 66
MonthlyOrderTables ==
    LET first  == {OrderRow(1, st, ts) : st \in {"delivered", "shipped"}, ts \in {8, 66}}
        second == {OrderRow(2, st, ts) : st \in {"delivered", "shipped"}, ts \in {39, 66}}
    IN  {{}} \cup {{a} : a \in first} \cup {{a, b} : a \in first, b \in second}
        \cup {{OrderRow(1, "delivered", 8), OrderRow(2, "delivered", 39),
               OrderRow(3, "delivered", 66)}}

ItemRow(order, product, seller, price, freight) ==
    [order_id |-> order, product_id |-> product, seller_id |-> seller,
     price |-> price, freight_value |-> freight]

MonthlyItemRows ==
    {ItemRow(o, 1, 1, 100, 20) : o \in {1, 2}} \cup
    {ItemRow(o, 1, 2, 100, 20) : o \in {1, 2}} \cup
    {ItemRow(o, 1, 1, 30, 0) : o \in {1, 2}}

ReviewRow(order, score) == [order_id |-> order, review_score |-> score]

ReviewRows == {ReviewRow(o, sc) : o \in {1, 2}, sc \in {NaN, 1, 2, 3, 4, 5}}

\* each order unreviewed or reviewed once, orders 1 and 2 with score 1 or 3,
\* order 3 with score 1
MonthlyReviewTables ==
    {SetToBag({ReviewRow(o, sc[o]) : o \in {x \in {1, 2, 3} : sc[x] # NaN}}) :
         sc \in {f \in [{1, 2, 3} -> {NaN, 1, 3}] : f[3] # 3}}

\* The tables of the category roll-up.  Orders 1 and 2 are delivered, order 3
\* is not; the items are a translated and an untranslated category in order 1,
\* a free item, a free item of an unknown product and an item of a product
\* without category in order 2, an item of order 3.
CategoryOrders ==
    {OrderRow(1, "delivered", 8), OrderRow(2, "delivered", 39),
     OrderRow(3, "shipped", 66)}

CategoryItemRows ==
    {ItemRow(1, 1, 1, 100, 0), ItemRow(1, 2, 1, 50, 0), ItemRow(1, 2, 1, 100, 0),
     ItemRow(2, 1, 1, 0, 0), ItemRow(2, 3, 1, 0, 0), ItemRow(2, 4, 1, 50, 0),
     ItemRow(3, 1, 1, 100, 0)}

\* every set of those rows, and one table that holds a row twice
CategoryItemTables ==
    {SetToBag(rows) : rows \in SUBSET CategoryItemRows}
    \cup {SetToBag({ItemRow(1, 1, 1, 100, 0)})
              (+) SetToBag({ItemRow(1, 1, 1, 100, 0), ItemRow(1, 2, 1, 50, 0)})}

\* orders 1 and 2 unreviewed or reviewed once, with score 1 or 3
CategoryReviewTables ==
    {SetToBag({ReviewRow(o, sc[o]) : o \in {x \in {1, 2} : sc[x] # NaN}}) :
         sc \in [{1, 2} -> {NaN, 1, 3}]}

\* The whole application runs on these tables.  Order 1 is delivered, early or
\* late; order 2 is delivered or only shipped; order 3, when present, is a
\* delivered order of a customer the customer table does not know.
AppOrder(id, status, purchased, delivered, estimated) ==
    [order_id                      |-> id,
     customer_id                   |-> id,
     order_status                  |-> status,
     order_purchase_timestamp      |-> purchased,
     order_delivered_customer_date |-> delivered,
     order_estimated_delivery_date |-> estimated]

AppOrderTables ==
    {{AppOrder(1, "delivered", 8, d, 48), AppOrder(2, st, 66, 101, 106)} :
         d \in {44, 53}, st \in {"delivered", "shipped"}}
    \cup {{AppOrder(1, "delivered", 8, 44, 48), AppOrder(2, "shipped", 66, 101, 106),
           AppOrder(3, "delivered", 39, NaN, 79)},
          {AppOrder(1, "delivered", 8, 53, 48), AppOrder(2, "delivered", 66, 101, 106),
           AppOrder(3, "delivered", 39, NaN, 79)}}

\* two items of order 1 in different categories and of different sellers, one
\* item of order 2, one free item of order 3 whose product is unknown
AppItemRows ==
    {ItemRow(1, 1, 1, 100, 20), ItemRow(1, 2, 2, 50, 10),
     ItemRow(2, 1, 1, 100, 20), ItemRow(3, 3, 2, 0, 10)}

AppItemTables ==
    {SetToBag(rows) : rows \in
        {{}, {ItemRow(1, 1, 1, 100, 20)},
         {ItemRow(1, 1, 1, 100, 20), ItemRow(1, 2, 2, 50, 10)},
         {ItemRow(2, 1, 1, 100, 20), ItemRow(3, 3, 2, 0, 10)},
         AppItemRows}}

AppReviewTables ==
    {SetToBag(rows) : rows \in
        {{}, {ReviewRow(1, 1), ReviewRow(1, 5), ReviewRow(2, 3)},
         {ReviewRow(1, 1), ReviewRow(2, 3), ReviewRow(3, NaN)}}}

\* product 1 has a translated category, product 2 an untranslated one,
\* product 4 none; product 3 is missing
AppProducts ==
    {[product_id |-> 1, product_category_name |-> "beleza_saude"],
     [product_id |-> 2, product_category_name |-> "pc_gamer"],
     [product_id |-> 4, product_category_name |-> NaNStr]}

AppTranslations ==
    {[product_category_name |-> "beleza_saude",
      product_category_name_english |-> "health_beauty"]}

AppCustomers ==
    {[customer_id |-> 1, customer_state |-> "SP"],
     [customer_id |-> 2, customer_state |-> "XX"]}

\* The tables of the state roll-up.  Order 1 is early, late or has no delivery
\* date; order 2 is delivered or shipped; order 3 has no estimate; the customer
\* of order 4 is unknown; order 5 is never reviewed.
StateOrderTables ==
    {{AppOrder(1, "delivered", 8, d, 48), AppOrder(2, st, 66, 101, 106),
      AppOrder(4, "delivered", 39, 70, 66)} \cup third \cup fifth :
         d \in {44, 53, NaN}, st \in {"delivered", "shipped"},
         third \in {{}, {AppOrder(3, "delivered", 39, 70, NaN)}},
         fifth \in {{}, {AppOrder(5, "delivered", 8, 53, 48)}}}

\* customer 2 lives in the state of customer 1 or in that of customer 3;
\* customer 4 is missing
StateCustomerTables ==
    {{[customer_id |-> 1, customer_state |-> "SP"],
      [customer_id |-> 2, customer_state |-> st],
      [customer_id |-> 3, customer_state |-> "RJ"],
      [customer_id |-> 5, customer_state |-> "MG"]} : st \in {"SP", "RJ"}}

StateItemTables ==
    {SetToBag(rows) : rows \in
        {{}, {ItemRow(1, 1, 1, 100, 20), ItemRow(2, 1, 1, 50, 10)},
         {ItemRow(1, 1, 1, 100, 20), ItemRow(1, 2, 2, 50, 10),
          ItemRow(3, 1, 1, 50, 10), ItemRow(4, 1, 1, 100, 20)}}}

\* order 1 unreviewed, reviewed once, twice, or without a score; orders 2 and 3
\* reviewed once or not; order 4 reviewed
StateReviewTables ==
    {SetToBag(first \cup second \cup third \cup {ReviewRow(4, 5)}) :
         first \in {{}, {ReviewRow(1, 1)}, {ReviewRow(1, 1), ReviewRow(1, 4)},
                    {ReviewRow(1, NaN)}},
         second \in {{}, {ReviewRow(2, 4)}},
         third \in {{}, {ReviewRow(3, 3)}}}

\* The tables of the state scatter: eleven states, the k-th with (k + 1) / 2
\* delivered orders (1, 1, 2, 2, ..., 5, 5, 6), delivered k days late and
\* reviewed once, best in the last state; the tables hold the last two states
\* or all eleven.  Order 100 k + j is the j-th
\* order of the k-th state.
ScatterStates == <<"AC", "AL", "AP", "AM", "BA", "CE", "DF", "ES", "GO", "MA", "MT">>

ScatterOrderIds(first) ==
    {100 * k + j : k \in first..Len(ScatterStates), j \in 1..3} \cup
    {100 * k + j : k \in first..Len(ScatterStates), j \in 4..6}

ScatterOrderKeys(first) ==
    {id \in ScatterOrderIds(first) : id % 100 <= ((id \div 100) + 1) \div 2}

ScatterOrders(first) ==
    {AppOrder(id, "delivered", 8, 48 + 2 * (id \div 100), 48) :
         id \in ScatterOrderKeys(first)}

ScatterCustomers(first) ==
    {[customer_id |-> id, customer_state |-> ScatterStates[id \div 100]] :
         id \in ScatterOrderKeys(first)}

ScatterReviews(first) ==
    SetToBag({ReviewRow(id, IF id \div 100 = Len(ScatterStates) THEN 5
                            ELSE 1 + ((id \div 100) % 4)) :
                  id \in ScatterOrderKeys(first)})

\* The tables of the category chart: one delivered order with an item of each
\* of the first n categories, the k-th priced 10 k, for a few n between 0 and 25.
\* The category names are Olist's; none has a translation in the tables.
ChartCategories ==
    <<"agro_industry_and_commerce", "air_conditioning", "art", "audio", "auto",
      "baby", "bed_bath_table", "books_imported", "books_technical", "cds_dvds_musicals",
      "christmas_supplies", "cine_photo", "computers", "consoles_games", "cool_stuff",
      "diapers_and_hygiene", "drinks", "electronics", "fashion_shoes", "flowers",
      "food", "furniture_decor", "garden_tools", "housewares", "luggage_accessories">>

ChartSizes == {0, 3, 5, 7, 20, 21, Len(ChartCategories)}

ChartProducts ==
    {[product_id |-> 100 + k, product_category_name |-> ChartCategories[k]] :
         k \in DOMAIN ChartCategories}

ChartItems(n) == SetToBag({ItemRow(1, 100 + k, 1, 10 * k, 0) : k \in 1..n})

\* The tables of the revenue trend: orders purchased in December, January and
\* February, any of them present, each delivered with one item of seller 1
\* priced 100, 200 or 300; no reviews.
TrendOrderIds == {1, 2, 3}

TrendOrders(present) ==
    {OrderRow(o, "delivered", (<<8, 66, 130>>)[o]) : o \in present}

TrendItems(present, price) ==
    SetToBag({ItemRow(o, 1, 1, price[o], 0) : o \in present})

\* The tables of the sliders: no order at all, or m delivered orders of
\* customers in SP and two of customers in RJ, one review in each state, no
\* items; n sellers of
\* distinct profits, the first three with sales and no review costs, the
\* others with next to no sales and growing review costs.
SliderOrderIds(m) == IF m = 0 THEN {} ELSE (1..m) \cup {1001, 1002}

SliderOrders(m) ==
    {AppOrder(id, "delivered", 8, 50, 48) : id \in SliderOrderIds(m)}

SliderCustomers(m) ==
    {[customer_id |-> id, customer_state |-> IF id > 1000 THEN "RJ" ELSE "SP"] :
         id \in SliderOrderIds(m)}

SliderReviews(m) == SetToBag({ReviewRow(id, 4) : id \in SliderOrderIds(m) \cap {1, 1001}})

SliderSeller(k) ==
    IF k <= 3
    THEN [sales |-> 40000 + 10 * k, months_on_olist |-> 0, revenues |-> 4000 + k,
          cost_of_reviews |-> 0, profits |-> 4000 + k, quantity |-> 1]
    ELSE [sales |-> 10, months_on_olist |-> 0, revenues |-> 1,
          cost_of_reviews |-> k - 3, profits |-> 4 - k, quantity |-> 1]

SliderSellers(n) == [i \in 1..n |-> SliderSeller(i)]

\* the numbers of SP orders and of sellers of a dataset
SliderSizes ==
    {<<0, 0>>, <<1, 1>>, <<2, 2>>, <<3, 3>>, <<7, 8>>, <<10, 11>>, <<11, 12>>,
     <<20, 30>>, <<399, 400>>, <<400, 401>>, <<501, 402>>, <<499, 2>>,
     <<500, 3>>, <<401, 4>>}

AppSellerTables ==
    {s \in SellerTables :
        \/ s = <<>>
        \/ Len(s) = 3 /\ s[1].profits = 1000 /\ s[2].profits = -2000
                      /\ s[3].profits = 1000 /\ s[1].sales < s[3].sales}

\* what a client may send to the callbacks
Pathnames ==
    {None} \cup {Just(p) : p \in {"", "/", "/overview", "/drivers", "/customers",
                                   "/strategy", "/actions", "/missing",
                                   "/Overview", "/drivers/"}}

MetricSelections ==
    {None, Just(<<>>), Just(<<"net_revenue", "olist_revenue", "reputation_cost">>),
     Just(<<"profit">>), Just(<<"gmv">>), Just(<<"net_revenue">>),
     Just(<<"gmv", "olist_revenue">>)}

\* a slider value, in halves: -1.5, 0, 0.5, 1, 1.5, 2, 2.5, 5, 5.5 and 7
SliderValues == {None} \cup {Just(h) : h \in {0 - 3, 0, 1, 2, 3, 4, 5, 10, 11, 14}}

-----------------------------------------------------------------------------
(* Actions: the calls load_dashboard_data makes, in its order.             *)

\* prepare_base_frames(orders_df, order_items_df, reviews_df)   (data.py:431)
PrepareBaseFrames ==
    /\ pc = "boot"
    /\ delivered_orders_df' = delivered_orders_of(orders_df)
    /\ order_items_delivered_df' =
           order_items_delivered_of(order_items_df, delivered_orders_df')
    /\ order_cost_df' = order_cost_of(reviews_df)
    /\ pc' = "base"
    /\ UNCHANGED <<inputs, monthly_metrics_df, category_profitability_df,
                   state_metrics_df, financial_overview, strategy_df,
                   strategy_highlights, served>>

\* compute_monthly_metrics(...)                                 (data.py:435)
ComputeMonthlyMetrics ==
    /\ pc = "base"
    /\ monthly_metrics_df' = compute_monthly_metrics(
           delivered_orders_df, order_items_delivered_df, order_cost_df)
    /\ pc' = "monthly"
    /\ UNCHANGED <<inputs, base_frames, category_profitability_df,
                   state_metrics_df, financial_overview, strategy_df,
                   strategy_highlights, served>>

\* compute_category_profitability(...)                          (data.py:438)
ComputeCategoryProfitability ==
    /\ pc = "monthly"
    /\ category_profitability_df' \in category_sorted(category_rows(
           order_items_delivered_df, products_df, translations_df, order_cost_df))
    /\ pc' = "category"
    /\ UNCHANGED <<inputs, base_frames, monthly_metrics_df, state_metrics_df,
                   financial_overview, strategy_df, strategy_highlights, served>>

\* compute_state_metrics(...)                                   (data.py:441)
ComputeStateMetrics ==
    /\ pc = "category"
    /\ state_metrics_df' \in state_sorted(state_rows(
           delivered_orders_df, order_items_delivered_df, customers_df, reviews_df))
    /\ pc' = "state"
    /\ UNCHANGED <<inputs, base_frames, monthly_metrics_df,
                   category_profitability_df, financial_overview, strategy_df,
                   strategy_highlights, served>>

\* financial_overview = compute_financial_overview(seller_df)   (data.py:446)
ComputeFinancialOverview ==
    /\ pc = "state"
    /\ financial_overview' = compute_financial_overview(seller_df)
    /\ pc' = "overview"
    /\ UNCHANGED <<inputs, base_frames, monthly_metrics_df,
                   category_profitability_df, state_metrics_df, strategy_df,
                   strategy_highlights, served>>

\* strategy_df, strategy_highlights = prepare_seller_strategy_data(seller_df)
PrepareSellerStrategyData ==
    /\ pc = "overview"
    /\ \E sorted_sellers \in sort_values_by_profits(seller_df) :
          /\ strategy_df' = strategy_records(seller_df, sorted_sellers)
          /\ strategy_highlights' = highlights_of(strategy_df')
    /\ pc' = "strategy"
    /\ UNCHANGED <<inputs, base_frames, monthly_metrics_df,
                   category_profitability_df, state_metrics_df,
                   financial_overview, served>>

\* the rest of load_dashboard_data and its return               (data.py:450-539,
\* app.py:28)
ReturnDashboardData ==
    /\ pc = "strategy"
    /\ \E spotlight \in customer_spotlights_of(state_metrics_df) :
           dashboard_data' = dashboard_data_of(spotlight)
    /\ loads' = loads + 1
    /\ pc' = "loaded"
    /\ UNCHANGED <<inputs, base_frames, monthly_metrics_df,
                   category_profitability_df, state_metrics_df, financial_overview,
                   strategy_df, strategy_highlights, callbacks, response>>

\* the three register_callbacks calls (app.py:36-38): each section keeps
\* copies of the frames its callbacks read
RegisterCallbacks ==
    /\ pc = "loaded"
    /\ callbacks' = [monthly_metrics_df        |-> dashboard_data.monthly_metrics,
                     category_profitability_df |-> dashboard_data.category_profitability,
                     state_metrics_df          |-> dashboard_data.state_metrics,
                     strategy_df               |-> dashboard_data.strategy_df,
                     highlights                |-> dashboard_data.strategy_highlights]
    /\ pc' = "serving"
    /\ UNCHANGED <<inputs, base_frames, monthly_metrics_df,
                   category_profitability_df, state_metrics_df, financial_overview,
                   strategy_df, strategy_highlights, dashboard_data, loads, response>>

computed == <<base_frames, monthly_metrics_df, category_profitability_df,
              state_metrics_df, financial_overview, strategy_df,
              strategy_highlights>>

\* app.py:119-127
UpdateShell ==
    /\ pc = "serving"
    /\ \E pathname \in Pathnames :
           response' = [callback |-> "update_shell", input |-> pathname,
                        output |-> update_shell(dashboard_data, pathname)]
    /\ UNCHANGED <<pc, inputs, computed, dashboard_data, loads, callbacks>>

\* sections/revenue_drivers.py:91-118
UpdateMonthlyMetrics ==
    /\ pc = "serving"
    /\ \E selected_metrics \in MetricSelections :
           response' = [callback |-> "update_monthly_metrics",
                        input    |-> selected_metrics,
                        output   |-> update_monthly_metrics(
                                         callbacks.monthly_metrics_df, selected_metrics)]
    /\ UNCHANGED <<pc, inputs, computed, dashboard_data, loads, callbacks>>

\* sections/revenue_drivers.py:120-155; the values include the maximum of the
\* slider (revenue_drivers.py:63) and the value after it
UpdateCategoryProfit ==
    /\ pc = "serving"
    /\ \E top_n \in SliderValues \cup
                        {Just(2 * dashboard_data.category_slider_max),
                         Just(2 * dashboard_data.category_slider_max + 2)} :
           /\ response' = [callback |-> "update_category_profit", input |-> top_n,
                           output |-> update_category_profit(
                                          callbacks.category_profitability_df, top_n)]
           /\ callbacks' = [callbacks EXCEPT !.category_profitability_df =
                                category_frame_after_update(@, top_n)]
    /\ UNCHANGED <<pc, inputs, computed, dashboard_data, loads>>

\* sections/customer_trust.py:115-149
UpdateStateScatter ==
    /\ pc = "serving"
    /\ \E min_orders \in SliderValues :
           /\ response' = [callback |-> "update_state_scatter", input |-> min_orders,
                           output |-> update_state_scatter(
                                          callbacks.state_metrics_df, min_orders)]
           /\ callbacks' = [callbacks EXCEPT !.state_metrics_df =
                                state_frame_after_update(@, min_orders)]
    /\ UNCHANGED <<pc, inputs, computed, dashboard_data, loads>>

\* sections/seller_strategy.py:88-186
UpdateSellerStrategy ==
    /\ pc = "serving"
    /\ \E selected_value \in SliderValues :
           response' = [callback |-> "update_seller_strategy",
                        input    |-> selected_value,
                        output   |-> update_seller_strategy(
                                         callbacks.strategy_df, callbacks.highlights,
                                         selected_value)]
    /\ UNCHANGED <<pc, inputs, computed, dashboard_data, loads, callbacks>>

-----------------------------------------------------------------------------
(* Specifications.                                                         *)

\* nothing computed yet
Unloaded ==
    /\ delivered_orders_df = {}
    /\ order_items_delivered_df = EmptyBag
    /\ order_cost_df = <<>>
    /\ monthly_metrics_df = <<>>
    /\ category_profitability_df = <<>>
    /\ state_metrics_df = <<>>
    /\ financial_overview = None
    /\ strategy_df = <<>>
    /\ strategy_highlights = None
    /\ dashboard_data = None
    /\ loads = 0
    /\ callbacks = None
    /\ response = None

\* The seller functions on every seller table of at most MaxSellers rows; the
\* order tables are empty, so the frames before them are the empty ones.
InitSellers ==
    /\ pc = "state"
    /\ orders_df = {}
    /\ order_items_df = EmptyBag
    /\ reviews_df = EmptyBag
    /\ products_df = {}
    /\ translations_df = {}
    /\ customers_df = {}
    /\ seller_df \in SellerTables
    /\ Unloaded

NextSellers == ComputeFinancialOverview \/ PrepareSellerStrategyData

SpecSellers == InitSellers /\ [][NextSellers]_vars

\* prepare_base_frames on every review table of at most MaxReviews rows
InitReviews ==
    /\ pc = "boot"
    /\ orders_df = {OrderRow(1, "delivered", 8), OrderRow(2, "shipped", 66)}
    /\ order_items_df = EmptyBag
    /\ reviews_df \in BagsUpTo(ReviewRows, MaxReviews)
    /\ products_df = {}
    /\ translations_df = {}
    /\ customers_df = {}
    /\ seller_df = <<>>
    /\ Unloaded

NextReviews == PrepareBaseFrames

SpecReviews == InitReviews /\ [][NextReviews]_vars

\* the monthly roll-up on every order table and every item table of at most
\* MaxItems rows, each order reviewed at most once
InitMonthly ==
    /\ pc = "boot"
    /\ orders_df \in MonthlyOrderTables
    /\ order_items_df \in BagsUpTo(MonthlyItemRows, MaxItems)
    /\ reviews_df \in MonthlyReviewTables
    /\ products_df = {}
    /\ translations_df = {}
    /\ customers_df = {}
    /\ seller_df = <<>>
    /\ Unloaded

NextMonthly == PrepareBaseFrames \/ ComputeMonthlyMetrics

SpecMonthly == InitMonthly /\ [][NextMonthly]_vars

\* the category roll-up on the category tables
InitCategory ==
    /\ pc = "boot"
    /\ orders_df = CategoryOrders
    /\ order_items_df \in CategoryItemTables
    /\ reviews_df \in CategoryReviewTables
    /\ products_df = AppProducts
    /\ translations_df = AppTranslations
    /\ customers_df = {}
    /\ seller_df = <<>>
    /\ Unloaded

NextCategory ==
    PrepareBaseFrames \/ ComputeMonthlyMetrics \/ ComputeCategoryProfitability

SpecCategory == InitCategory /\ [][NextCategory]_vars

\* the state roll-up on the state tables
InitState ==
    /\ pc = "boot"
    /\ orders_df \in StateOrderTables
    /\ order_items_df \in StateItemTables
    /\ reviews_df \in StateReviewTables
    /\ products_df = AppProducts
    /\ translations_df = AppTranslations
    /\ customers_df \in StateCustomerTables
    /\ seller_df = <<>>
    /\ Unloaded

NextState ==
    \/ PrepareBaseFrames
    \/ ComputeMonthlyMetrics
    \/ ComputeCategoryProfitability
    \/ ComputeStateMetrics

SpecState == InitState /\ [][NextState]_vars

\* start-up on the scatter tables, then the state scatter callback
InitScatter ==
    /\ pc = "boot"
    /\ \E first \in {1, 10} :
           /\ orders_df = ScatterOrders(first)
           /\ customers_df = ScatterCustomers(first)
           /\ reviews_df = ScatterReviews(first)
    /\ order_items_df = EmptyBag
    /\ products_df = AppProducts
    /\ translations_df = AppTranslations
    /\ seller_df = <<>>
    /\ Unloaded

NextScatter ==
    \/ PrepareBaseFrames
    \/ ComputeMonthlyMetrics
    \/ ComputeCategoryProfitability
    \/ ComputeStateMetrics
    \/ ComputeFinancialOverview
    \/ PrepareSellerStrategyData
    \/ ReturnDashboardData
    \/ RegisterCallbacks
    \/ UpdateStateScatter

SpecScatter == InitScatter /\ [][NextScatter]_vars

\* start-up on the chart tables, then the category chart callback
InitChart ==
    /\ pc = "boot"
    /\ orders_df = {OrderRow(1, "delivered", 8)}
    /\ order_items_df \in {ChartItems(n) : n \in ChartSizes}
    /\ reviews_df = EmptyBag
    /\ products_df = ChartProducts
    /\ translations_df = {}
    /\ customers_df = {}
    /\ seller_df = <<>>
    /\ Unloaded

NextChart ==
    \/ PrepareBaseFrames
    \/ ComputeMonthlyMetrics
    \/ ComputeCategoryProfitability
    \/ ComputeStateMetrics
    \/ ComputeFinancialOverview
    \/ PrepareSellerStrategyData
    \/ ReturnDashboardData
    \/ RegisterCallbacks
    \/ UpdateCategoryProfit

SpecChart == InitChart /\ [][NextChart]_vars

\* start-up on the trend tables
InitTrend ==
    /\ pc = "boot"
    /\ \E present \in SUBSET TrendOrderIds :
           \E price \in [present -> {100, 200, 300}] :
               /\ orders_df = TrendOrders(present)
               /\ order_items_df = TrendItems(present, price)
    /\ reviews_df = EmptyBag
    /\ products_df = {}
    /\ translations_df = {}
    /\ customers_df = {}
    /\ seller_df = <<>>
    /\ Unloaded

NextTrend ==
    \/ PrepareBaseFrames
    \/ ComputeMonthlyMetrics
    \/ ComputeCategoryProfitability
    \/ ComputeStateMetrics
    \/ ComputeFinancialOverview
    \/ PrepareSellerStrategyData
    \/ ReturnDashboardData

SpecTrend == InitTrend /\ [][NextTrend]_vars

\* start-up on the tables of the state roll-up
NextSpotlight ==
    \/ PrepareBaseFrames
    \/ ComputeMonthlyMetrics
    \/ ComputeCategoryProfitability
    \/ ComputeStateMetrics
    \/ ComputeFinancialOverview
    \/ PrepareSellerStrategyData
    \/ ReturnDashboardData

SpecSpotlight == InitState /\ [][NextSpotlight]_vars

\* start-up on any seller table, the other tables being empty
InitStrategy ==
    /\ pc = "boot"
    /\ orders_df = {}
    /\ order_items_df = EmptyBag
    /\ reviews_df = EmptyBag
    /\ products_df = {}
    /\ translations_df = {}
    /\ customers_df = {}
    /\ seller_df \in SellerTables
    /\ Unloaded

NextStrategy ==
    \/ PrepareBaseFrames
    \/ ComputeMonthlyMetrics
    \/ ComputeCategoryProfitability
    \/ ComputeStateMetrics
    \/ ComputeFinancialOverview
    \/ PrepareSellerStrategyData
    \/ ReturnDashboardData

SpecStrategy == InitStrategy /\ [][NextStrategy]_vars

\* start-up on the slider tables
InitSliders ==
    /\ pc = "boot"
    /\ \E size \in SliderSizes :
           /\ orders_df = SliderOrders(size[1])
           /\ customers_df = SliderCustomers(size[1])
           /\ reviews_df = SliderReviews(size[1])
           /\ seller_df = SliderSellers(size[2])
    /\ order_items_df = EmptyBag
    /\ products_df = {}
    /\ translations_df = {}
    /\ Unloaded

NextSliders ==
    \/ PrepareBaseFrames
    \/ ComputeMonthlyMetrics
    \/ ComputeCategoryProfitability
    \/ ComputeStateMetrics
    \/ ComputeFinancialOverview
    \/ PrepareSellerStrategyData
    \/ ReturnDashboardData

SpecSliders == InitSliders /\ [][NextSliders]_vars

\* the application: start-up on one of the application's datasets, then the
\* callbacks, served in any order with any input
Init ==
    /\ pc = "boot"
    /\ orders_df \in AppOrderTables
    /\ order_items_df \in AppItemTables
    /\ reviews_df \in AppReviewTables
    /\ products_df = AppProducts
    /\ translations_df = AppTranslations
    /\ customers_df = AppCustomers
    /\ seller_df \in AppSellerTables
    /\ Unloaded

Next ==
    \/ PrepareBaseFrames
    \/ ComputeMonthlyMetrics
    \/ ComputeCategoryProfitability
    \/ ComputeStateMetrics
    \/ ComputeFinancialOverview
    \/ PrepareSellerStrategyData
    \/ ReturnDashboardData
    \/ RegisterCallbacks
    \/ UpdateShell
    \/ UpdateMonthlyMetrics
    \/ UpdateCategoryProfit
    \/ UpdateStateScatter
    \/ UpdateSellerStrategy

Spec == Init /\ [][Next]_vars

-----------------------------------------------------------------------------
(* The claims.  Each is stated from the input tables, not from the         *)
(* operators that model the code.                                          *)

\* the stages of start-up at or after a given one
Stages == <<"boot", "base", "monthly", "category", "state", "overview",
            "strategy", "loaded", "serving">>

StageIndex(st) == CHOOSE i \in DOMAIN Stages : Stages[i] = st

Reached(st) == StageIndex(pc) >= StageIndex(st)

\* the sum of a column over the sellers p[k+1], ..., p[n] of the seller table
RemainingSum(p, k, c) ==
    SumSeq([i \in 1..(Len(seller_df) - k) |-> seller_df[p[k + i]][c]])

\* C1: for n >= 1 sellers and every k in 0..n-1, the what-if row with
\* sellers_removed = k holds the summed revenues, review costs and gross profit
\* (net_profit + it_costs) of the n-k sellers left after removing the k sellers
\* of lowest profit, the sellers being taken in ascending order of profit.
C1_RowsSumRemainingSellers ==
    (Reached("strategy") /\ Len(seller_df) >= 1) =>
        \E p \in IndexPermutations(Len(seller_df)) :
            /\ \A i \in 1..(Len(seller_df) - 1) :
                   seller_df[p[i]].profits <= seller_df[p[i + 1]].profits
            /\ \A k \in 0..(Len(seller_df) - 1) :
                   /\ \E i \in DOMAIN strategy_df : strategy_df[i].sellers_removed = k
                   /\ \A i \in DOMAIN strategy_df :
                          strategy_df[i].sellers_removed = k =>
                              /\ strategy_df[i].revenues = RemainingSum(p, k, "revenues")
                              /\ strategy_df[i].review_costs =
                                     RemainingSum(p, k, "cost_of_reviews")
                              /\ strategy_df[i].net_profit + strategy_df[i].it_costs =
                                     RemainingSum(p, k, "profits")

\* three sellers, not given in order of profit, one of them removed from a
\* table that then holds the two most profitable ones
C1_Witness ==
    /\ pc = "strategy"
    /\ Len(seller_df) = 3
    /\ seller_df[1].profits > seller_df[3].profits
    /\ seller_df[3].profits > seller_df[2].profits
    /\ Len(strategy_df) = 3
    /\ strategy_df[2].revenues = seller_df[1].revenues + seller_df[3].revenues
    /\ strategy_df[3].revenues = seller_df[1].revenues

\* C2: for n >= 1 sellers the what-if table has exactly n rows, whose
\* sellers_removed are 0, 1, ..., n-1 in row order, and every row has
\* sellers_remaining = n - sellers_removed >= 1.
C2_RowsCountRemovals ==
    (Reached("strategy") /\ Len(seller_df) >= 1) =>
        /\ Len(strategy_df) = Len(seller_df)
        /\ \A i \in DOMAIN strategy_df :
               /\ strategy_df[i].sellers_removed = i - 1
               /\ strategy_df[i].sellers_remaining =
                      Len(seller_df) - strategy_df[i].sellers_removed
               /\ strategy_df[i].sellers_remaining >= 1

C2_Witness ==
    /\ pc = "strategy"
    /\ Len(seller_df) >= 3
    /\ Len(strategy_df) = Len(seller_df)
    /\ strategy_df[Len(strategy_df)].sellers_remaining = 1

\* the half-days at which the months of the calendar start: 2017-12-01,
\* 2018-01-01, 2018-02-01, 2018-03-01, 2018-04-01
MonthStarts == <<0, 62, 124, 180, 242>>

SameCalendarMonth(a, b) ==
    \E i \in 1..(Len(MonthStarts) - 1) :
        /\ MonthStarts[i] <= a /\ a < MonthStarts[i + 1]
        /\ MonthStarts[i] <= b /\ b < MonthStarts[i + 1]

\* the delivered orders of the input purchased in the calendar month of m
DeliveredOrdersOfMonth(m) ==
    {o \in orders_df : /\ o.order_status = "delivered"
                       /\ SameCalendarMonth(o.order_purchase_timestamp, m)}

\* the input order items of those orders
DeliveredItemsOfMonth(m) ==
    {r \in DOMAIN order_items_df :
         r.order_id \in {o.order_id : o \in DeliveredOrdersOfMonth(m)}}

ItemsTotal(items, c) == SumFn([r \in items |-> order_items_df[r] * r[c]])

\* C3: in every row of the monthly table gmv = gross_sales + freight, where
\* gross_sales and freight are the sums of price and freight_value over exactly
\* the order items whose order is delivered and was purchased in the row's month.
C3_GmvIsSalesPlusFreight ==
    Reached("monthly") =>
        \A i \in DOMAIN monthly_metrics_df :
            LET row   == monthly_metrics_df[i]
                items == DeliveredItemsOfMonth(row.month)
            IN  /\ row.gmv = row.gross_sales + row.freight
                /\ row.gross_sales = ItemsTotal(items, "price")
                /\ row.freight = ItemsTotal(items, "freight_value")

\* a month with two delivered orders bought on different days, each with an
\* item that carries freight, beside an order that is not delivered
C3_Witness ==
    /\ pc = "monthly"
    /\ \E i \in DOMAIN monthly_metrics_df :
           /\ monthly_metrics_df[i].freight > 0
           /\ Cardinality({r.order_id :
                  r \in DeliveredItemsOfMonth(monthly_metrics_df[i].month)}) = 2
           /\ Cardinality({o.order_purchase_timestamp :
                  o \in DeliveredOrdersOfMonth(monthly_metrics_df[i].month)}) = 2

\* the reputation cost of an order: the worst of its scored reviews, 0 without one
CostOfScore(score) ==
    CASE score = 1 -> 100 [] score = 2 -> 50 [] score = 3 -> 40
      [] score = 4 -> 0   [] score = 5 -> 0

ScoredReviews(order_id) ==
    {r \in DOMAIN reviews_df : r.order_id = order_id /\ r.review_score # NaN}

WorstReviewCost(order_id) ==
    IF ScoredReviews(order_id) = {} THEN 0
    ELSE Max({CostOfScore(r.review_score) : r \in ScoredReviews(order_id)})

\* C5: the reputation-cost frame has at most one row per order_id; the cost is
\* the maximum of COST_MAP over the order's reviews with a score; an order
\* without a scored review has no row and is charged 0 where the cost is used.
C5_OrderCostIsWorstReview ==
    Reached("base") =>
        /\ \A i, j \in DOMAIN order_cost_df :
               order_cost_df[i].order_id = order_cost_df[j].order_id => i = j
        /\ \A i \in DOMAIN order_cost_df :
               /\ ScoredReviews(order_cost_df[i].order_id) # {}
               /\ order_cost_df[i].reputation_cost =
                      WorstReviewCost(order_cost_df[i].order_id)
        /\ \A r \in DOMAIN reviews_df :
               /\ ScoredReviews(r.order_id) # {} =>
                      \E i \in DOMAIN order_cost_df :
                          order_cost_df[i].order_id = r.order_id
               /\ order_reputation_cost(order_cost_df, r.order_id) =
                      WorstReviewCost(r.order_id)

\* one order reviewed twice with different costs, which is charged the higher
\* one, and another order whose only review has no score, which has no row
C5_Witness ==
    /\ pc = "base"
    /\ \E a, b \in DOMAIN reviews_df :
           /\ a.order_id = b.order_id
           /\ a.review_score # NaN /\ b.review_score # NaN
           /\ CostOfScore(a.review_score) < CostOfScore(b.review_score)
           /\ \E i \in DOMAIN order_cost_df :
                  /\ order_cost_df[i].order_id = a.order_id
                  /\ order_cost_df[i].reputation_cost = CostOfScore(b.review_score)
    /\ \E c \in DOMAIN reviews_df :
           /\ c.review_score = NaN
           /\ ScoredReviews(c.order_id) = {}
           /\ \A i \in DOMAIN order_cost_df : order_cost_df[i].order_id # c.order_id
           /\ order_reputation_cost(order_cost_df, c.order_id) = 0

\* C9: in every row of the monthly table subscription_revenue is 80 times the
\* number of distinct sellers with an item of a delivered order purchased in
\* that month, olist_revenue = olist_commission + subscription_revenue and
\* net_revenue = olist_revenue - reputation_cost.
C9_SubscriptionPerDistinctSeller ==
    Reached("monthly") =>
        \A i \in DOMAIN monthly_metrics_df :
            LET row == monthly_metrics_df[i]
            IN  /\ row.subscription_revenue =
                       80 * Cardinality({r.seller_id :
                                            r \in DeliveredItemsOfMonth(row.month)})
                /\ row.olist_revenue = row.olist_commission + row.subscription_revenue
                /\ row.net_revenue = row.olist_revenue - row.reputation_cost

\* a month with two items of one seller and a reputation cost
C9_Witness ==
    /\ pc = "monthly"
    /\ \E i \in DOMAIN monthly_metrics_df :
           /\ monthly_metrics_df[i].subscription_revenue = 80
           /\ monthly_metrics_df[i].reputation_cost > 0
           /\ SumFn([r \in DeliveredItemsOfMonth(monthly_metrics_df[i].month) |->
                        order_items_df[r]]) = 2

\* the delivered orders of the input and the input items of those orders
DeliveredOrders == {o \in orders_df : o.order_status = "delivered"}

DeliveredItems ==
    {r \in DOMAIN order_items_df :
         r.order_id \in {o.order_id : o \in DeliveredOrders}}

\* the delivered orders of the input that have an item
DeliveredOrdersWithItems ==
    {o \in orders_df : /\ o.order_status = "delivered"
                       /\ \E r \in DOMAIN order_items_df : r.order_id = o.order_id}

\* C10: the monthly table has one row per month in which an item of a delivered
\* order was purchased, in ascending month order; the row's reputation_cost is
\* the sum over all delivered orders purchased in that month, with or without
\* items, of the order's reputation cost (0 when unreviewed); a month whose
\* delivered orders have no items has no row.
C10_MonthlyRowsAndCosts ==
    Reached("monthly") =>
        /\ \A o \in DeliveredOrdersWithItems :
               \E i \in DOMAIN monthly_metrics_df :
                   SameCalendarMonth(o.order_purchase_timestamp,
                                     monthly_metrics_df[i].month)
        /\ \A i \in DOMAIN monthly_metrics_df :
               /\ \E o \in DeliveredOrdersWithItems :
                      SameCalendarMonth(o.order_purchase_timestamp,
                                        monthly_metrics_df[i].month)
               /\ monthly_metrics_df[i].reputation_cost =
                      SumFn([o \in DeliveredOrdersOfMonth(monthly_metrics_df[i].month) |->
                                WorstReviewCost(o.order_id)])
        /\ \A i, j \in DOMAIN monthly_metrics_df :
               i < j => /\ monthly_metrics_df[i].month < monthly_metrics_df[j].month
                        /\ ~SameCalendarMonth(monthly_metrics_df[i].month,
                                              monthly_metrics_df[j].month)

\* the only row carries the cost of a reviewed order of its month that has no
\* item, and another month, whose only delivered order is reviewed and has no
\* item, has no row
C10_Witness ==
    /\ pc = "monthly"
    /\ Len(monthly_metrics_df) = 1
    /\ \E a, b \in DeliveredOrders \ DeliveredOrdersWithItems :
           /\ WorstReviewCost(a.order_id) > 0
           /\ WorstReviewCost(b.order_id) > 0
           /\ SameCalendarMonth(a.order_purchase_timestamp, monthly_metrics_df[1].month)
           /\ ~SameCalendarMonth(b.order_purchase_timestamp, monthly_metrics_df[1].month)
           /\ monthly_metrics_df[1].reputation_cost >= WorstReviewCost(a.order_id)

\* the input items charged to a customer state: those of its delivered orders
DeliveredItemsOfState(st) ==
    {r \in DeliveredItems :
         \E o \in DeliveredOrders :
             /\ o.order_id = r.order_id
             /\ \E c \in customers_df : /\ c.customer_id = o.customer_id
                                        /\ c.customer_state = st}

\* C4: prepare_base_frames returns exactly the orders with order_status =
\* "delivered" and exactly the order items of those orders, and olist_commission
\* in every row of the monthly, category and state tables is 10% of the summed
\* price of the delivered items of that month, category or state; an item of an
\* order that is not delivered contributes to no row of the three tables.
C4_CommissionOnDeliveredOnly ==
    /\ Reached("base") =>
           /\ {o.order_id : o \in delivered_orders_df} =
                  {o.order_id : o \in DeliveredOrders}
           /\ \A d \in delivered_orders_df :
                  \E o \in DeliveredOrders :
                      /\ DOMAIN d = {"order_id", "customer_id", "order_purchase_timestamp",
                                     "order_delivered_customer_date",
                                     "order_estimated_delivery_date"}
                      /\ \A c \in DOMAIN d : d[c] = o[c]
           /\ DOMAIN order_items_delivered_df = DeliveredItems
           /\ \A r \in DeliveredItems : order_items_delivered_df[r] = order_items_df[r]
    /\ Reached("monthly") =>
           /\ \A i \in DOMAIN monthly_metrics_df :
                  10 * monthly_metrics_df[i].olist_commission =
                      ItemsTotal(DeliveredItemsOfMonth(monthly_metrics_df[i].month), "price")
           /\ 10 * SumSeq(Column(monthly_metrics_df, "olist_commission")) =
                  ItemsTotal(DeliveredItems, "price")
    /\ Reached("category") =>
           /\ \A i \in DOMAIN category_profitability_df :
                  10 * category_profitability_df[i].olist_commission =
                      ItemsTotal({r \in DeliveredItems :
                                     product_category_of(products_df, translations_df, r) =
                                         category_profitability_df[i].product_category},
                                 "price")
           /\ 10 * SumSeq(Column(category_profitability_df, "olist_commission")) =
                  ItemsTotal(DeliveredItems, "price")
    /\ Reached("state") =>
           \A i \in DOMAIN state_metrics_df :
               10 * state_metrics_df[i].olist_commission =
                   ItemsTotal(DeliveredItemsOfState(state_metrics_df[i].customer_state),
                              "price")

\* an order that is not delivered has a priced item, and each of the three
\* tables has a row with a commission
C4_Witness ==
    /\ Reached("state")
    /\ \E r \in DOMAIN order_items_df : r.price > 0 /\ r \notin DeliveredItems
    /\ \E i \in DOMAIN monthly_metrics_df : monthly_metrics_df[i].olist_commission > 0
    /\ \E i \in DOMAIN category_profitability_df :
           category_profitability_df[i].olist_commission > 0
    /\ \E i \in DOMAIN state_metrics_df : state_metrics_df[i].olist_commission > 0

\* the copies the sections took of the payload's tables at registration
CopiesOfPayload ==
    /\ callbacks.monthly_metrics_df = dashboard_data.monthly_metrics
    /\ callbacks.category_profitability_df = dashboard_data.category_profitability
    /\ callbacks.state_metrics_df = dashboard_data.state_metrics
    /\ callbacks.strategy_df = dashboard_data.strategy_df
    /\ callbacks.highlights = dashboard_data.strategy_highlights

\* C6: load_dashboard_data has run exactly once when the callbacks are
\* registered and when any callback has been served, not at all before it
\* returns, and no callback is served before it; once the callbacks are
\* registered no step changes the payload, the sections' copies of its tables
\* or the number of loads, so the copies stay equal to the payload's tables.
C6_LoadedOnceThenUnchanged ==
    /\ [](Reached("loaded") => loads = 1)
    /\ [](~Reached("loaded") => loads = 0 /\ dashboard_data = None)
    /\ [](response # None => loads = 1 /\ pc = "serving")
    /\ [](pc = "serving" => CopiesOfPayload)
    /\ [][pc = "serving" => /\ dashboard_data' = dashboard_data
                            /\ callbacks' = callbacks
                            /\ loads' = loads]_vars

\* update_state_scatter has been served a threshold that no state reaches, so
\* its selection is empty, and the section's table is still the payload's
C6_Witness ==
    /\ pc = "serving"
    /\ response # None
    /\ response.callback = "update_state_scatter"
    /\ response.input = Just(4)
    /\ Len(callbacks.state_metrics_df) >= 1
    /\ \A i \in DOMAIN callbacks.state_metrics_df :
           callbacks.state_metrics_df[i].order_count < 2
    /\ callbacks.state_metrics_df = dashboard_data.state_metrics

\* C7: update_shell's page content is the overview layout for pathname None,
\* "", "/" and "/overview", the revenue-drivers layout for "/drivers", the
\* customer-trust layout for "/customers", the seller-strategy layout for
\* "/strategy", the actions layout for "/actions", and for every other pathname
\* the "Page not found" card followed by the overview layout; it is never an
\* error.
C7_FivePagesElseNotFound ==
    (response # None /\ response.callback = "update_shell") =>
        LET pathname == response.input
            content  == response.output.content
        IN  /\ "error" \notin DOMAIN response.output
            /\ "error" \notin DOMAIN content
            /\ CASE pathname \in {None, Just(""), Just("/"), Just("/overview")} ->
                        content = overview_layout(dashboard_data)
                 [] pathname = Just("/drivers") ->
                        content = revenue_drivers_layout(dashboard_data)
                 [] pathname = Just("/customers") ->
                        content = customer_trust_layout(dashboard_data)
                 [] pathname = Just("/strategy") ->
                        content = seller_strategy_layout(dashboard_data)
                 [] pathname = Just("/actions") ->
                        content = actions_layout(dashboard_data)
                 [] OTHER ->
                        /\ DOMAIN content = {"page", "children"}
                        /\ content.children =
                               <<[card |-> "Page not found"],
                                 overview_layout(dashboard_data)>>

\* the alias "/overview" has been served the overview page
C7_Witness ==
    /\ response # None
    /\ response.callback = "update_shell"
    /\ response.input = Just("/overview")
    /\ response.output.content.page = "overview"

\* the result of a callback on an input, computed from the payload that
\* load_dashboard_data returned
ResultFromStartUp(callback, input) ==
    CASE callback = "update_shell" -> update_shell(dashboard_data, input)
      [] callback = "update_monthly_metrics" ->
             update_monthly_metrics(dashboard_data.monthly_metrics, input)
      [] callback = "update_category_profit" ->
             update_category_profit(dashboard_data.category_profitability, input)
      [] callback = "update_state_scatter" ->
             update_state_scatter(dashboard_data.state_metrics, input)
      [] callback = "update_seller_strategy" ->
             update_seller_strategy(dashboard_data.strategy_df,
                                    dashboard_data.strategy_highlights, input)

\* C8: whatever callbacks were served before, the result of a callback is the
\* one its input and the start-up payload determine, so two invocations of a
\* callback with the same input return the same result.
C8_OutputFromInputAndStartUp ==
    response # None =>
        response.output = ResultFromStartUp(response.callback, response.input)

\* update_category_profit has been asked for more categories than it was
\* asked for at some time before, and shows all the categories of the payload
C8_Witness ==
    /\ response # None
    /\ response.callback = "update_category_profit"
    /\ response.input = Just(10)
    /\ Len(dashboard_data.category_profitability) >= 2
    /\ Len(response.output.bars) = Len(dashboard_data.category_profitability)

\* the delivered items of an order, and their total price
DeliveredItemsOfOrder(order_id) == {r \in DeliveredItems : r.order_id = order_id}

DeliveredPriceOfOrder(order_id) == ItemsTotal(DeliveredItemsOfOrder(order_id), "price")

\* C11: for every delivered order whose items have a non-zero total price the
\* costs allocated to its items sum to the order's reputation cost; for an
\* order whose items total 0 every item is allocated 0; so the reputation_cost
\* of all categories sums to the reputation cost of the delivered orders that
\* have items of non-zero total price.
C11_CostAllocatedByPriceShare ==
    Reached("category") =>
        /\ \A o \in DeliveredOrdersWithItems :
               LET items     == DeliveredItemsOfOrder(o.order_id)
                   allocated == [r \in items |->
                                    reputation_cost_allocated(
                                        order_items_delivered_df, order_cost_df, r)]
               IN  IF DeliveredPriceOfOrder(o.order_id) # 0
                   THEN FracSumFn([r \in items |->
                            FracScale(order_items_df[r], allocated[r])]) =
                                FracOfInt(WorstReviewCost(o.order_id))
                   ELSE \A r \in items : allocated[r] = FracOfInt(0)
        /\ FracSumFn(Column(category_profitability_df, "reputation_cost")) =
               FracOfInt(SumFn([o \in {x \in DeliveredOrdersWithItems :
                                          DeliveredPriceOfOrder(x.order_id) # 0} |->
                                   WorstReviewCost(o.order_id)]))

\* an order with a cost whose two items differ in price and category, beside
\* an order with a cost whose items are free
C11_Witness ==
    /\ pc = "category"
    /\ \E o \in DeliveredOrdersWithItems :
           /\ WorstReviewCost(o.order_id) > 0
           /\ \E r, q \in DeliveredItemsOfOrder(o.order_id) :
                  /\ 0 < r.price /\ r.price < q.price
                  /\ r.product_id # q.product_id
    /\ \E o \in DeliveredOrdersWithItems :
           /\ WorstReviewCost(o.order_id) > 0
           /\ DeliveredPriceOfOrder(o.order_id) = 0
    /\ \E i, j \in DOMAIN category_profitability_df :
           /\ category_profitability_df[i].reputation_cost.den = 3
           /\ category_profitability_df[j].reputation_cost.den = 3
           /\ i # j

\* the category of an input item: the English name of its product's category
\* when the translation table has one, else the category name, else "Unknown"
CategoryOfItem(r) ==
    LET names == {q.product_category_name :
                      q \in {x \in products_df : x.product_id = r.product_id}} \ {NaNStr}
        english == {t.product_category_name_english :
                        t \in {x \in translations_df : x.product_category_name \in names}}
    IN  IF names = {} THEN "Unknown"
        ELSE IF english # {} THEN CHOOSE e \in english : TRUE
        ELSE CHOOSE n \in names : TRUE

DeliveredItemsOfCategory(c) == {r \in DeliveredItems : CategoryOfItem(r) = c}

\* C12: in every row of the category table olist_commission is a tenth of
\* gross_sales and net_profit = olist_commission - reputation_cost; the rows are
\* in descending order of net_profit; order_count is the number of distinct
\* orders with a delivered item in the category, so an order with items in two
\* categories is counted in both.
C12_CategoryRowIdentities ==
    Reached("category") =>
        /\ \A i \in DOMAIN category_profitability_df :
               LET row == category_profitability_df[i]
               IN  /\ 10 * row.olist_commission = row.gross_sales
                   /\ row.net_profit =
                          FracSub(FracOfInt(row.olist_commission), row.reputation_cost)
                   /\ row.order_count =
                          Cardinality({r.order_id :
                              r \in DeliveredItemsOfCategory(row.product_category)})
        /\ \A i, j \in DOMAIN category_profitability_df :
               i < j => ~FracLess(category_profitability_df[i].net_profit,
                                  category_profitability_df[j].net_profit)

\* two categories of different net profit, the first with two orders, one of
\* which also has an item in the second
C12_Witness ==
    /\ pc = "category"
    /\ Len(category_profitability_df) >= 2
    /\ FracLess(category_profitability_df[2].net_profit,
                category_profitability_df[1].net_profit)
    /\ category_profitability_df[1].order_count = 2
    /\ \E r \in DeliveredItemsOfCategory(category_profitability_df[1].product_category),
          q \in DeliveredItemsOfCategory(category_profitability_df[2].product_category) :
           r.order_id = q.order_id

\* C13: every delivered item is in exactly one category row, that of the
\* English translation of its product's category name when there is one, else
\* of the untranslated name, else (product unknown or category missing) of
\* "Unknown"; each row's gross_sales is the summed price of the delivered items
\* of its category, so no delivered item is missing from the totals.
C13_EveryItemInOneCategory ==
    Reached("category") =>
        /\ \A r \in DeliveredItems :
               Cardinality({i \in DOMAIN category_profitability_df :
                   category_profitability_df[i].product_category = CategoryOfItem(r)}) = 1
        /\ \A i \in DOMAIN category_profitability_df :
               LET items == DeliveredItemsOfCategory(
                                category_profitability_df[i].product_category)
               IN  /\ items # {}
                   /\ category_profitability_df[i].gross_sales = ItemsTotal(items, "price")
        /\ SumSeq(Column(category_profitability_df, "gross_sales")) =
               ItemsTotal(DeliveredItems, "price")

\* a translated category, an untranslated one and "Unknown", which holds an
\* item of an unknown product and an item of a product without category
C13_Witness ==
    /\ pc = "category"
    /\ {category_profitability_df[i].product_category :
            i \in DOMAIN category_profitability_df} =
           {"health_beauty", "pc_gamer", "Unknown"}
    /\ \E r, q \in DeliveredItemsOfCategory("Unknown") :
           /\ \A p \in products_df : p.product_id # r.product_id
           /\ \E p \in products_df : /\ p.product_id = q.product_id
                                     /\ p.product_category_name = NaNStr

\* the state of an input order's customer, NaN when the customer or the state
\* is unknown
StateOfOrder(o) ==
    LET known == {c.customer_state :
                      c \in {x \in customers_df : x.customer_id = o.customer_id}}
                 \ {NaNStr}
    IN  IF known = {} THEN NaNStr ELSE CHOOSE st \in known : TRUE

DeliveredOrdersOfState(st) == {o \in DeliveredOrders : StateOfOrder(o) = st}

\* whole days between the estimate and the delivery, 0 when a date is missing
DelayDays(o) ==
    IF o.order_delivered_customer_date = NaN \/ o.order_estimated_delivery_date = NaN
    THEN 0
    ELSE (o.order_delivered_customer_date - o.order_estimated_delivery_date) \div 2

\* the mean of the scores of an order's scored reviews
MeanScore(order_id) ==
    Fraction(SumFn([r \in ScoredReviews(order_id) |-> reviews_df[r] * r.review_score]),
             SumFn([r \in ScoredReviews(order_id) |-> reviews_df[r]]))

\* C14: the state table has one row per customer state with a delivered order
\* that has a scored review, in descending order of order_count; orders of
\* customers without known state and states without reviewed order have no
\* row; avg_delay averages the delay of the state's delivered orders with 0 for
\* a missing date; avg_review is the mean over the reviewed orders of the
\* order's mean score; the commission is a tenth of the price of the orders'
\* delivered items, 0 for an order without items.
C14_StateRows ==
    Reached("state") =>
        /\ Len(state_metrics_df) =
               Cardinality({state_metrics_df[i].customer_state :
                                i \in DOMAIN state_metrics_df})
        /\ {state_metrics_df[i].customer_state : i \in DOMAIN state_metrics_df} =
               {StateOfOrder(o) : o \in {x \in DeliveredOrders :
                                            ScoredReviews(x.order_id) # {}}} \ {NaNStr}
        /\ \A i, j \in DOMAIN state_metrics_df :
               i < j => state_metrics_df[i].order_count >= state_metrics_df[j].order_count
        /\ \A i \in DOMAIN state_metrics_df :
               LET row      == state_metrics_df[i]
                   orders   == DeliveredOrdersOfState(row.customer_state)
                   reviewed == {o \in orders : ScoredReviews(o.order_id) # {}}
                   scores   == FracSumFn([o \in reviewed |-> MeanScore(o.order_id)])
               IN  /\ row.avg_delay =
                          Fraction(SumFn([o \in orders |-> DelayDays(o)]),
                                   Cardinality(orders))
                   /\ row.avg_review =
                          Fraction(scores.num, scores.den * Cardinality(reviewed))
                   /\ 10 * row.olist_commission =
                          ItemsTotal(DeliveredItemsOfState(row.customer_state), "price")

\* a state of two orders before a state of one; an order reviewed twice; an
\* order without delivery date and one without items in a listed state; a
\* reviewed order of an unknown customer; a state whose only order is unreviewed
C14_Witness ==
    /\ pc = "state"
    /\ Len(state_metrics_df) = 2
    /\ state_metrics_df[1].order_count = 2
    /\ state_metrics_df[2].order_count = 1
    /\ \E o \in DeliveredOrdersOfState(state_metrics_df[1].customer_state) :
           /\ o.order_delivered_customer_date = NaN
           /\ Cardinality(ScoredReviews(o.order_id)) = 2
    /\ \E o \in DeliveredOrdersOfState(state_metrics_df[1].customer_state) :
           /\ o \notin DeliveredOrdersWithItems
           /\ ScoredReviews(o.order_id) = {}
    /\ state_metrics_df[1].olist_commission > 0
    /\ \E o \in DeliveredOrders :
           StateOfOrder(o) = NaNStr /\ ScoredReviews(o.order_id) # {}
    /\ \E o \in DeliveredOrders :
           /\ StateOfOrder(o) # NaNStr
           /\ \A i \in DOMAIN state_metrics_df :
                  state_metrics_df[i].customer_state # StateOfOrder(o)

\* a slider value truncated to an integer, None read as 0; the value is in halves
TruncatedValue(v) ==
    IF v = None THEN 0
    ELSE IF v.value >= 0 THEN v.value \div 2 ELSE 0 - ((0 - v.value) \div 2)

Clamp(x, lo, hi) == IF x < lo THEN lo ELSE IF x > hi THEN hi ELSE x

\* C15: for any slider input update_seller_strategy reports one row of the
\* what-if table: the marker, the heading and the five figures are those of
\* that row, and with n >= 1 sellers the row is the one whose sellers_removed
\* is the truncated input (0 for None) clamped to [0, n-1].
C15_ScenarioIsRowOfTable ==
    (response # None /\ response.callback = "update_seller_strategy") =>
        LET table   == dashboard_data.strategy_df
            figure  == response.output.figure
            summary == response.output.summary
        IN  /\ \E i \in DOMAIN table :
                   /\ figure.vline = table[i].sellers_removed
                   /\ summary.scenario = table[i].sellers_removed
                   /\ summary.net_profit = format_brl(table[i].net_profit)
                   /\ summary.revenues = format_brl(table[i].revenues)
                   /\ summary.total_costs = format_brl(table[i].total_costs)
                   /\ summary.remaining = table[i].sellers_remaining
                   /\ summary.margin = format_percent(table[i].margin)
            /\ Len(seller_df) >= 1 =>
                   summary.scenario =
                       Clamp(TruncatedValue(response.input), 0, Len(seller_df) - 1)

\* 5.5 on a table of three sellers reports the scenario of two removals, and
\* that row differs from the baseline
C15_Witness ==
    /\ response # None
    /\ response.callback = "update_seller_strategy"
    /\ response.input = Just(11)
    /\ Len(seller_df) = 3
    /\ response.output.summary.scenario = 2
    /\ response.output.summary.remaining = 1
    /\ response.output.summary.revenues # format_brl(dashboard_data.strategy_df[1].revenues)

\* the rows of a table, as a set
RowsOf(t) == {t[i] : i \in DOMAIN t}

\* C16: update_state_scatter plots each state with order_count >= min_orders
\* once and no other (None read as 0, a fraction truncated); when no state
\* qualifies it plots min(10, number of states) states, none of which has fewer
\* orders than a state left out; so a non-empty state table gives a non-empty
\* plot, and for a value in [0, state_slider.max] some state qualifies and the
\* state with the most orders is plotted.
C16_ScatterSelection ==
    (response # None /\ response.callback = "update_state_scatter") =>
        LET table      == dashboard_data.state_metrics
            threshold  == TruncatedValue(response.input)
            points     == response.output.points
            qualifying == {row \in RowsOf(table) : row.order_count >= threshold}
        IN  /\ Cardinality(RowsOf(points)) = Len(points)
            /\ IF qualifying # {}
               THEN RowsOf(points) = qualifying
               ELSE /\ RowsOf(points) \subseteq RowsOf(table)
                    /\ Len(points) = Min({10, Len(table)})
                    /\ \A p \in RowsOf(points), q \in RowsOf(table) \ RowsOf(points) :
                           q.order_count <= p.order_count
            /\ table # <<>> => points # <<>>
            /\ ( /\ response.input # None
                 /\ 0 <= response.input.value
                 /\ response.input.value <= 2 * dashboard_data.state_slider.max ) =>
                   /\ qualifying # {}
                   /\ \E p \in RowsOf(points) :
                          p.order_count = dashboard_data.state_slider.max

\* a threshold above the order count of each of eleven states: ten states are
\* plotted, and the one left out is one with the fewest orders
C16_Witness ==
    /\ response # None
    /\ response.callback = "update_state_scatter"
    /\ response.input = Just(14)
    /\ Len(dashboard_data.state_metrics) = 11
    /\ dashboard_data.state_slider.max = 6
    /\ Len(response.output.points) = 10
    /\ \E q \in RowsOf(dashboard_data.state_metrics) \ RowsOf(response.output.points) :
           q.order_count = 1

CategoriesOfDeliveredItems == {CategoryOfItem(r) : r \in DeliveredItems}

DisplayedCategories ==
    {response.output.bars[i].product_category : i \in DOMAIN response.output.bars}

\* C17: category_slider_max is the number of categories clamped to [5, 20] and
\* the slider of the layout starts at min(10, category_slider_max), a value
\* between 5 and category_slider_max; update_category_profit with the integer
\* top_n displays min(max(1, top_n), number of categories) distinct categories
\* of the table, and no category left out has a higher net_profit than one
\* that is displayed.
C17_TopCategoriesDisplayed ==
    /\ Reached("loaded") =>
           LET slider == revenue_drivers_layout(dashboard_data).slider
           IN  /\ Len(dashboard_data.category_profitability)
                      = Cardinality(CategoriesOfDeliveredItems)
               /\ dashboard_data.category_slider_max
                      = Clamp(Cardinality(CategoriesOfDeliveredItems), 5, 20)
               /\ slider.max = dashboard_data.category_slider_max
               /\ slider.value = Min({10, dashboard_data.category_slider_max})
               /\ 5 <= slider.value
               /\ slider.value <= dashboard_data.category_slider_max
    /\ (/\ response # None
        /\ response.callback = "update_category_profit"
        /\ response.input # None) =>
           LET table == dashboard_data.category_profitability
               top_n == TruncatedValue(response.input)
           IN  /\ "bars" \in DOMAIN response.output
               /\ Len(response.output.bars) = Min({Max({1, top_n}), Len(table)})
               /\ Cardinality(DisplayedCategories) = Len(response.output.bars)
               /\ \A i \in DOMAIN response.output.bars :
                      \E k \in DOMAIN table :
                          /\ table[k].product_category
                                 = response.output.bars[i].product_category
                          /\ table[k].net_profit = response.output.bars[i].net_profit
               /\ \A k \in DOMAIN table :
                      table[k].product_category \notin DisplayedCategories =>
                          \A i \in DOMAIN response.output.bars :
                              ~FracLess(response.output.bars[i].net_profit,
                                        table[k].net_profit)

\* twenty-five categories and the slider at its maximum, 20: the twenty most
\* profitable categories are displayed and five are left out
C17_Witness ==
    /\ response # None
    /\ response.callback = "update_category_profit"
    /\ response.input = Just(40)
    /\ Len(dashboard_data.category_profitability) = 25
    /\ dashboard_data.category_slider_max = 20
    /\ revenue_drivers_layout(dashboard_data).slider.value = 10
    /\ Len(response.output.bars) = 20

SelectableMetrics == {METRIC_LABELS[i].value : i \in DOMAIN METRIC_LABELS}

LabelOfMetric(metric) ==
    METRIC_LABELS[CHOOSE i \in DOMAIN METRIC_LABELS : METRIC_LABELS[i].value = metric].label

\* the selections the checklist can send: None, or selectable metrics without
\* repetition
MadeThroughChecklist(selection) ==
    \/ selection = None
    \/ /\ \A i \in DOMAIN selection.value : selection.value[i] \in SelectableMetrics
       /\ \A i, j \in DOMAIN selection.value :
              selection.value[i] = selection.value[j] => i = j

\* C18: the options of the checklist are the metrics of METRIC_LABELS and its
\* initial selection is all of them but gmv, in their order; every selectable
\* metric is a column of every row of the monthly table; and for a selection
\* made through the checklist update_monthly_metrics raises nothing and plots
\* one line per selected metric, in the selected order, with the metric's
\* label and the metric's column over the months, or the line of net_revenue
\* alone when the selection is empty or None.
C18_SelectedMetricsPlotted ==
    /\ Reached("loaded") =>
           LET checklist == revenue_drivers_layout(dashboard_data).checklist
           IN  /\ {checklist.options[i].value : i \in DOMAIN checklist.options}
                      = SelectableMetrics
               /\ Len(checklist.options) = Cardinality(SelectableMetrics)
               /\ checklist.value
                      = SelectSeq([i \in DOMAIN METRIC_LABELS |-> METRIC_LABELS[i].value],
                                  LAMBDA v : v # "gmv")
               /\ MadeThroughChecklist(Just(checklist.value))
               /\ \A k \in DOMAIN dashboard_data.monthly_metrics :
                      SelectableMetrics \subseteq DOMAIN dashboard_data.monthly_metrics[k]
    /\ (/\ response # None
        /\ response.callback = "update_monthly_metrics"
        /\ MadeThroughChecklist(response.input)) =>
           LET monthly == dashboard_data.monthly_metrics
               plotted == IF response.input = None \/ response.input = Just(<<>>)
                          THEN <<"net_revenue">>
                          ELSE response.input.value
           IN  /\ "traces" \in DOMAIN response.output
               /\ response.output.x = [k \in DOMAIN monthly |-> monthly[k].month]
               /\ Len(response.output.traces) = Len(plotted)
               /\ \A i \in DOMAIN plotted :
                      /\ response.output.traces[i].name = LabelOfMetric(plotted[i])
                      /\ response.output.traces[i].y
                             = [k \in DOMAIN monthly |-> monthly[k][plotted[i]]]

\* gmv then olist_revenue are selected, the reverse of their order in the
\* checklist, over a table of two months or more: two lines, gmv first
C18_Witness ==
    /\ response # None
    /\ response.callback = "update_monthly_metrics"
    /\ response.input = Just(<<"gmv", "olist_revenue">>)
    /\ Len(dashboard_data.monthly_metrics) >= 2
    /\ Len(response.output.traces) = 2
    /\ response.output.traces[1].name = "Total marketplace sales"
    /\ response.output.traces[1].y # response.output.traces[2].y

\* the rows of the monthly table whose month is the latest, and the rows that
\* come right before such a row in the order of the months
LastMonthRows ==
    {r \in RowsOf(monthly_metrics_df) :
        \A q \in RowsOf(monthly_metrics_df) : q.month <= r.month}

MonthRowsBeforeLast ==
    {r \in RowsOf(monthly_metrics_df) \ LastMonthRows :
        \A q \in RowsOf(monthly_metrics_df) \ LastMonthRows : q.month <= r.month}

RevenueTrendNote == actions_layout(dashboard_data).key_numbers[1].note

\* C19: latest_net_revenue is the net_revenue of the row of the latest month
\* and net_revenue_change is that value minus the net_revenue of the month row
\* right before it; with one month the change is 0 and with no month both are
\* 0.  The trend text of the actions page has the up arrow iff the change is
\* > 0 and the down arrow iff it is < 0, both with the absolute value of the
\* change as the amount, and is the flat text iff the change is 0.
C19_LatestRevenueAndTrend ==
    Reached("loaded") =>
        LET latest == dashboard_data.latest_net_revenue
            change == dashboard_data.net_revenue_change
        IN  /\ Cardinality(LastMonthRows) <= 1
            /\ Cardinality(MonthRowsBeforeLast) <= 1
            /\ \A r \in LastMonthRows : latest = r.net_revenue
            /\ \A r \in LastMonthRows, q \in MonthRowsBeforeLast :
                   change = r.net_revenue - q.net_revenue
            /\ MonthRowsBeforeLast = {} => change = 0
            /\ LastMonthRows = {} => latest = 0
            /\ (RevenueTrendNote.arrow = "up") <=> (change > 0)
            /\ (RevenueTrendNote.arrow = "down") <=> (change < 0)
            /\ (RevenueTrendNote = [arrow |-> "flat"]) <=> (change = 0)
            /\ change # 0 => RevenueTrendNote.amount = format_brl(Abs(change))
            /\ actions_layout(dashboard_data).recommendations[1].trend = RevenueTrendNote
            /\ actions_layout(dashboard_data).key_numbers[1].value = format_brl(latest)

\* December, no January, February: the February revenue is below that of
\* December, the row before it, and the text has the down arrow with the
\* positive amount of the fall
C19_Witness ==
    /\ Reached("loaded")
    /\ Len(monthly_metrics_df) = 2
    /\ monthly_metrics_df[1].month = 0
    /\ monthly_metrics_df[2].month = 124
    /\ dashboard_data.net_revenue_change < 0
    /\ dashboard_data.latest_net_revenue # 0
    /\ RevenueTrendNote.arrow = "down"
    /\ RevenueTrendNote.amount.value = 0 - dashboard_data.net_revenue_change

RecommendationItems ==
    {actions_layout(dashboard_data).recommendations[i].item :
         i \in DOMAIN actions_layout(dashboard_data).recommendations}

\* C20: with a non-empty state table worst_delay is a state of the table whose
\* avg_delay no state exceeds, best_delay one whose avg_delay no state is
\* below, best_review one whose avg_review no state exceeds; with an empty
\* state table the three are None, the customer-trust layout has no spotlight
\* card and the actions layout has neither the delivery nor the promoters
\* recommendation, and both layouts are rendered.
C20_SpotlightStates ==
    Reached("loaded") =>
        LET spotlight == dashboard_data.customer_spotlight
            states    == RowsOf(state_metrics_df)
        IN  /\ dashboard_data.state_metrics = state_metrics_df
            /\ states # {} =>
                   /\ spotlight.worst_delay \in states
                   /\ spotlight.best_delay \in states
                   /\ spotlight.best_review \in states
                   /\ \A s \in states :
                          /\ ~FracLess(spotlight.worst_delay.avg_delay, s.avg_delay)
                          /\ ~FracLess(s.avg_delay, spotlight.best_delay.avg_delay)
                          /\ ~FracLess(spotlight.best_review.avg_review, s.avg_review)
            /\ states = {} =>
                   /\ spotlight.worst_delay = None
                   /\ spotlight.best_delay = None
                   /\ spotlight.best_review = None
                   /\ customer_trust_layout(dashboard_data).page = "customers"
                   /\ customer_trust_layout(dashboard_data).spotlight_boxes = <<>>
                   /\ actions_layout(dashboard_data).page = "actions"
                   /\ RecommendationItems = {"revenue", "categories", "pruning"}

\* two states or more, the state with most orders neither the most delayed
\* nor the best reviewed, and the most delayed state not the least delayed
C20_Witness ==
    /\ Reached("loaded")
    /\ Len(state_metrics_df) >= 2
    /\ dashboard_data.customer_spotlight.worst_delay # state_metrics_df[1]
    /\ dashboard_data.customer_spotlight.best_review # state_metrics_df[1]
    /\ FracLess(dashboard_data.customer_spotlight.best_delay.avg_delay,
                dashboard_data.customer_spotlight.worst_delay.avg_delay)
    /\ Len(customer_trust_layout(dashboard_data).spotlight_boxes) = 3

\* C21: on the same seller table the baseline row of the what-if table agrees
\* with the financial overview: revenues with revenues_total, review_costs
\* with costs_reviews, it_costs with costs_it, net_profit with profits_net,
\* margin with margin and sellers_remaining with seller_count.
C21_BaselineAgreesWithOverview ==
    Reached("strategy") =>
        /\ strategy_df[1].sellers_removed = 0
        /\ strategy_highlights.baseline = strategy_df[1]
        /\ strategy_df[1].revenues = financial_overview.revenues_total
        /\ strategy_df[1].review_costs = financial_overview.costs_reviews
        /\ strategy_df[1].it_costs = financial_overview.costs_it
        /\ strategy_df[1].net_profit = financial_overview.profits_net
        /\ strategy_df[1].margin = financial_overview.margin
        /\ strategy_df[1].sellers_remaining = financial_overview.seller_count

\* three sellers with revenue, IT costs above zero and a net profit that is
\* not zero: both functions have run and the what-if table has three rows
C21_Witness ==
    /\ pc = "strategy"
    /\ Len(seller_df) = 3
    /\ Len(strategy_df) = 3
    /\ financial_overview.costs_it > 0
    /\ financial_overview.revenues_total > 0
    /\ financial_overview.profits_net # 0
    /\ financial_overview.profits_net # financial_overview.profits_gross
    /\ strategy_df[1].margin.num # 0

PruningRecommendation ==
    LET recs == actions_layout(dashboard_data).recommendations
    IN  recs[CHOOSE i \in DOMAIN recs : recs[i].item = "pruning"]

\* C22: for a seller table with non-negative quantities the max_profit
\* highlight is a row of the what-if table whose net_profit no row exceeds and
\* the max_margin highlight a row whose margin no row exceeds; profit_uplift
\* and margin_uplift are >= 0, and the actions page takes the 'unlocks' and
\* the 'Margin would move' branches, never the other two.
C22_UpliftsNeverNegative ==
    /\ Reached("strategy") =>
           /\ strategy_highlights.max_profit \in RowsOf(strategy_df)
           /\ strategy_highlights.max_margin \in RowsOf(strategy_df)
           /\ strategy_highlights.baseline \in RowsOf(strategy_df)
           /\ \A r \in RowsOf(strategy_df) :
                  /\ r.net_profit <= strategy_highlights.max_profit.net_profit
                  /\ ~FracLess(strategy_highlights.max_margin.margin, r.margin)
    /\ Reached("loaded") =>
           /\ dashboard_data.profit_uplift
                  = strategy_highlights.max_profit.net_profit - strategy_df[1].net_profit
           /\ dashboard_data.profit_uplift >= 0
           /\ dashboard_data.margin_uplift
                  = FracSub(strategy_highlights.max_margin.margin, strategy_df[1].margin)
           /\ dashboard_data.margin_uplift.num >= 0
           /\ PruningRecommendation.phrase.phrase = "unlocks"
           /\ actions_layout(dashboard_data).key_numbers[3].note.phrase
                  = "Margin would move"

\* three sellers, the last scenario worse than the baseline in net profit and
\* in margin, the best scenario in between: both uplifts are above zero
C22_Witness ==
    /\ Reached("loaded")
    /\ Len(strategy_df) = 3
    /\ strategy_highlights.max_profit.sellers_removed = 1
    /\ strategy_df[3].net_profit < strategy_df[1].net_profit
    /\ FracLess(strategy_df[3].margin, strategy_df[1].margin)
    /\ dashboard_data.profit_uplift > 0
    /\ dashboard_data.margin_uplift.num > 0
    /\ \A i \in DOMAIN seller_df : seller_df[i].quantity >= 0

\* the what-if rows whose remaining revenue is 0
RowsWithoutRevenue == {r \in RowsOf(strategy_df) : r.revenues = 0}

\* C23: margin is net profit divided by revenue, and 0 when the revenue is 0:
\* the overview's margin is profits_net / revenues_total, or 0 when the
\* sellers' total revenue is 0 (the empty seller table included); every
\* what-if row has margin net_profit / revenues, or 0 when its remaining
\* revenue is 0; and every margin is a defined number.
C23_MarginZeroWithoutRevenue ==
    /\ Reached("overview") =>
           /\ financial_overview.margin.den > 0
           /\ financial_overview.revenues_total = SumSeq(Column(seller_df, "revenues"))
           /\ IF financial_overview.revenues_total = 0
              THEN financial_overview.margin = FracOfInt(0)
              ELSE financial_overview.margin.num * financial_overview.revenues_total
                       = financial_overview.profits_net * financial_overview.margin.den
    /\ Reached("strategy") =>
           \A r \in RowsOf(strategy_df) :
               /\ r.margin.den > 0
               /\ IF r.revenues = 0
                  THEN r.margin = FracOfInt(0)
                  ELSE r.margin.num * r.revenues = r.net_profit * r.margin.den

\* a seller with revenue and two without: once the first is removed the
\* remaining revenue is 0 while the net profit is not, and the margin is 0
C23_Witness ==
    /\ pc = "strategy"
    /\ Len(strategy_df) = 3
    /\ strategy_df[1].revenues # 0
    /\ strategy_df[1].margin.num # 0
    /\ strategy_df[2].revenues = 0
    /\ strategy_df[2].net_profit # 0
    /\ strategy_df[2].margin = FracOfInt(0)
    /\ RowsWithoutRevenue # {}

\* the number of delivered orders of the customers of a state
OrderCountOfState(st) ==
    Cardinality({o \in orders_df :
                    /\ o.order_status = "delivered"
                    /\ \E c \in customers_df :
                           c.customer_id = o.customer_id /\ c.customer_state = st})

\* C24: both slider configurations have 0 <= default <= max.  The strategy
\* slider has max = n - 1 for n >= 1 sellers and default = the max_profit
\* scenario's sellers_removed, 0 when max is 0; the state slider has max = the
\* largest order_count of the state table, 0 when the table is empty, and
\* default = min(500, max); each step is 50 when max >= 400 and 10 otherwise.
C24_SliderDefaultsWithinRange ==
    Reached("loaded") =>
        LET strategy == dashboard_data.strategy_slider
            state    == dashboard_data.state_slider
        IN  /\ 0 <= strategy.default /\ strategy.default <= strategy.max
            /\ Len(seller_df) >= 1 => strategy.max = Len(seller_df) - 1
            /\ strategy.default = IF strategy.max = 0 THEN 0
                                  ELSE strategy_highlights.max_profit.sellers_removed
            /\ strategy.step = IF strategy.max >= 400 THEN 50 ELSE 10
            /\ 0 <= state.default /\ state.default <= state.max
            /\ \A row \in RowsOf(state_metrics_df) :
                   /\ row.order_count <= state.max
                   /\ row.order_count = OrderCountOfState(row.customer_state)
            /\ state_metrics_df # <<>> =>
                   \E row \in RowsOf(state_metrics_df) : row.order_count = state.max
            /\ state_metrics_df = <<>> => state.max = 0
            /\ state.default = Min({500, state.max})
            /\ state.step = IF state.max >= 400 THEN 50 ELSE 10

\* 501 delivered orders in SP and 402 sellers: the state slider has maximum
\* 501, starts at 500 and steps by 50; the strategy slider has maximum 401,
\* steps by 50 and starts at the most profitable scenario, inside its range
C24_Witness ==
    /\ Reached("loaded")
    /\ Len(seller_df) = 402
    /\ OrderCountOfState("SP") = 501
    /\ dashboard_data.state_slider.max = 501
    /\ dashboard_data.state_slider.default = 500
    /\ dashboard_data.state_slider.step = 50
    /\ dashboard_data.strategy_slider.max = 401
    /\ dashboard_data.strategy_slider.step = 50
    /\ dashboard_data.strategy_slider.default > 0
    /\ dashboard_data.strategy_slider.default < 401

\* the navigation links that update_shell's response marks as active
ActiveLinks ==
    {i \in DOMAIN response.output.navigation.nav_links :
        response.output.navigation.nav_links[i].active}

\* C25: navigation and page content agree: when the content of update_shell is
\* one of the five section pages, without the 'Page not found' card, exactly
\* one navigation link is active; for every other pathname none is; and never
\* more than one is.
C25_NavigationAgreesWithPage ==
    (response # None /\ response.callback = "update_shell") =>
        /\ Cardinality(ActiveLinks) <= 1
        /\ IF response.output.content.page # "not found"
           THEN Cardinality(ActiveLinks) = 1
           ELSE ActiveLinks = {}

=============================================================================
